---- MODULE Spec2Model ----
(***************************************************************************)
(* A model of the kilo++ editor core (src/src/Editor.hpp): the row store,  *)
(* tab rendering, syntax highlighting, incremental search and the keypress *)
(* loop.  Characters are their ASCII codes; strings are sequences of       *)
(* codes; positions are 0-based as in the source (sequence index + 1).     *)
(***************************************************************************)
EXTENDS Integers, Sequences, FiniteSets, TLC

\* ---------------------------------------------------------------- bounds
MaxRows == 2
MaxLen == 2
MaxDirty == 1
MaxSessions == 1
MaxQuery == 1

\* ------------------------------------------------------ program constants
KILO_TAB_STOP == 8
KILO_QUIT_TIMES == 3
DirtyModulus == 256

\* terminal size minus the two bar lines, fixed at construction
m_screenrows == 2
m_screencols == 3

\* ------------------------------------------------------------- characters
NUL == 0
CTRL_H == 8
TAB == 9
LF == 10
CR == 13
ESC == 27
SPACE == 32
DQUOTE == 34
SQUOTE == 39
STAR == 42
DOT == 46
SLASH == 47
BACKSLASH == 92
CH_a == 97
BACKSPACE == 127
ARROW_LEFT == 1000
ARROW_RIGHT == 1001
ARROW_UP == 1002
ARROW_DOWN == 1003
DEL_KEY == 1004
HOME_KEY == 1005
END_KEY == 1006
PAGE_UP == 1007
PAGE_DOWN == 1008

\* EditorHighlight
HL_NORMAL == "NORMAL"
HL_COMMENT == "COMMENT"
HL_MLCOMMENT == "ML_COMMENT"
HL_KEYWORD1 == "KEYWORD1"
HL_KEYWORD2 == "KEYWORD2"
HL_STRING == "STRING"
HL_NUMBER == "NUMBER"
HL_MATCH == "MATCH"

\* ---------------------------------------------------------------- helpers
Min(a, b) == IF a < b THEN a ELSE b

\* s[i] of a std::string, 0-based; s[size()] is the terminating NUL
CharAt(s, i) == IF i >= 0 /\ i < Len(s) THEN s[i + 1] ELSE NUL

\* s.substr(pos): the characters from 0-based pos to the end
SubstrFrom(s, pos) == SubSeq(s, pos + 1, Len(s))

\* s.substr(0, n)
SubstrTo(s, n) == SubSeq(s, 1, Min(n, Len(s)))

\* std::fill(v.begin() + from, v.begin() + to, val), 0-based half-open
Fill(v, from, to, val) ==
  [k \in 1..Len(v) |-> IF k - 1 >= from /\ k - 1 < to THEN val ELSE v[k]]

\* !s.compare(pos, Len(kw), kw): kw occurs in s at 0-based pos
CompareAt(s, pos, kw) ==
  /\ pos + Len(kw) <= Len(s)
  /\ \A k \in 1..Len(kw) : s[pos + k] = kw[k]

\* s.find(q): 0-based offset of the first occurrence of q in s, -1 for npos
StrFind(s, q) ==
  LET hits == {p \in 0..Len(s) : CompareAt(s, p, q)}
  IN IF hits = {} THEN -1 ELSE CHOOSE p \in hits : \A o \in hits : p <= o

\* v.resize(n, val): keeps the first n entries, pads with val
Resize(v, n, val) == [k \in 1..n |-> IF k <= Len(v) THEN v[k] ELSE val]

IsSpace(c) == c \in 9..13 \/ c = SPACE
IsDigit(c) == c \in 48..57
IsCntrl(c) == c \in 0..31 \/ c = 127

\* ",.()+-/*=~%<>[];"
SeparatorPunct == {44, 46, 40, 41, 43, 45, 47, 42, 61, 126, 37, 60, 62, 91, 93, 59}

isSeparator(c) == IsSpace(c) \/ c = NUL \/ c \in SeparatorPunct

\* ------------------------------------------------------------ syntax data
C_HL_KEYWORDS == <<
  <<115,119,105,116,99,104>>, <<105,102>>, <<119,104,105,108,101>>,
  <<102,111,114>>, <<98,114,101,97,107>>,
  <<99,111,110,116,105,110,117,101>>, <<114,101,116,117,114,110>>,
  <<101,108,115,101>>, <<115,116,114,117,99,116>>, <<117,110,105,111,110>>,
  <<116,121,112,101,100,101,102>>, <<115,116,97,116,105,99>>,
  <<99,111,110,115,116>>, <<101,110,117,109>>, <<99,108,97,115,115>>,
  <<99,97,115,101>>, <<105,110,116,124>>, <<108,111,110,103,124>>,
  <<100,111,117,98,108,101,124>>, <<102,108,111,97,116,124>>,
  <<99,104,97,114,124>>, <<117,110,115,105,103,110,101,100,124>>,
  <<115,105,103,110,101,100,124>>, <<97,117,116,111,124>>,
  <<118,111,105,100,124>> >>

\* the single HLDB entry; m_syntax is "none" (nullptr) or "c" (this entry)
HLDB == [filetype |-> "c",
         keywords |-> C_HL_KEYWORDS,
         singleline_comment_start |-> <<SLASH, SLASH>>,
         multiline_comment_start |-> <<SLASH, STAR>>,
         multiline_comment_end |-> <<STAR, SLASH>>,
         numbers |-> TRUE,
         strings |-> TRUE]

\* --------------------------------------------------- syntax highlighting
\* the keyword text compared against the row: a trailing '|' is stripped
KeywordText(kw) == IF kw[Len(kw)] = 124 THEN SubSeq(kw, 1, Len(kw) - 1) ELSE kw

\* the keyword loop of updateSyntax: position in the list of the first
\* keyword that occurs at i and is followed by a separator, 0 when none does
KeywordHit(r, i, kws) ==
  LET hits == {n \in 1..Len(kws) :
                 /\ CompareAt(r, i, KeywordText(kws[n]))
                 /\ isSeparator(CharAt(r, i + Len(KeywordText(kws[n]))))}
  IN IF hits = {} THEN 0 ELSE CHOOSE n \in hits : \A o \in hits : n <= o

\* the scanning loop of updateSyntax over the rendered text r, from 0-based
\* position i; hl already has the length of r.  in_string is 0 or the quote.
RECURSIVE ScanRow(_, _, _, _, _, _, _)
ScanRow(r, hl, i, prev_sep, in_string, in_comment, syn) ==
  IF i >= Len(r) THEN [hl |-> hl, in_comment |-> in_comment]
  ELSE
    LET c == r[i + 1]
        prev_hl == IF i > 0 THEN hl[i] ELSE HL_NORMAL
        scs == syn.singleline_comment_start
        mcs == syn.multiline_comment_start
        mce == syn.multiline_comment_end
        ml == mcs # <<>> /\ mce # <<>> /\ in_string = 0
        kw == IF prev_sep THEN KeywordHit(r, i, syn.keywords) ELSE 0
    IN
    IF scs # <<>> /\ in_string = 0 /\ ~in_comment /\ CompareAt(r, i, scs)
      THEN [hl |-> Fill(hl, i, Len(hl), HL_COMMENT), in_comment |-> in_comment]
    ELSE IF ml /\ in_comment /\ CompareAt(r, i, mce)
      THEN ScanRow(r, Fill(hl, i, i + Len(mce), HL_MLCOMMENT), i + Len(mce),
                   TRUE, in_string, FALSE, syn)
    ELSE IF ml /\ in_comment
      THEN ScanRow(r, [hl EXCEPT ![i + 1] = HL_MLCOMMENT], i + 1,
                   prev_sep, in_string, TRUE, syn)
    ELSE IF ml /\ CompareAt(r, i, mcs)
      THEN ScanRow(r, Fill(hl, i, i + Len(mcs), HL_MLCOMMENT), i + Len(mcs),
                   prev_sep, in_string, TRUE, syn)
    ELSE IF syn.strings /\ in_string # 0 /\ c = BACKSLASH /\ i + 1 < Len(r)
      THEN ScanRow(r, Fill(hl, i, i + 2, HL_STRING), i + 2,
                   prev_sep, in_string, in_comment, syn)
    ELSE IF syn.strings /\ in_string # 0
      THEN ScanRow(r, [hl EXCEPT ![i + 1] = HL_STRING], i + 1,
                   TRUE, IF c = in_string THEN 0 ELSE in_string, in_comment, syn)
    ELSE IF syn.strings /\ (c = DQUOTE \/ c = SQUOTE)
      THEN ScanRow(r, [hl EXCEPT ![i + 1] = HL_STRING], i + 1,
                   prev_sep, c, in_comment, syn)
    ELSE IF /\ syn.numbers
            /\ \/ IsDigit(c) /\ (prev_sep \/ prev_hl = HL_NUMBER)
               \/ c = DOT /\ prev_hl = HL_NUMBER
      THEN ScanRow(r, [hl EXCEPT ![i + 1] = HL_NUMBER], i + 1,
                   FALSE, in_string, in_comment, syn)
    ELSE IF kw # 0
      THEN LET klen == Len(KeywordText(syn.keywords[kw]))
               is_kw2 == syn.keywords[kw][Len(syn.keywords[kw])] = 124
           IN ScanRow(r, Fill(hl, i, i + klen,
                              IF is_kw2 THEN HL_KEYWORD2 ELSE HL_KEYWORD1),
                      i + klen, FALSE, in_string, in_comment, syn)
    ELSE ScanRow(r, hl, i + 1, isSeparator(c), in_string, in_comment, syn)

\* updateSyntax that goes on to the next row whether or not the flag changed
RECURSIVE updateSyntaxFrom_AlwaysCascade(_, _, _, _)
updateSyntaxFrom_AlwaysCascade(rs, p, m_syn, seen) ==
  LET erow == rs[p + 1]
      hl0 == Resize(erow.hl, Len(erow.rendered), HL_NORMAL)
  IN IF m_syn = "none"
       THEN [rows |-> [rs EXCEPT ![p + 1].hl = hl0], scanned |-> Append(seen, p)]
     ELSE
       LET in0 == erow.idx > 0 /\ rs[erow.idx].hl_open_comment
           res == ScanRow(erow.rendered, hl0, 0, TRUE, 0, in0, HLDB)
           is_changed == erow.hl_open_comment # res.in_comment
           rs1 == [rs EXCEPT ![p + 1].hl = res.hl,
                             ![p + 1].hl_open_comment = res.in_comment]
       IN IF TRUE /\ erow.idx + 1 < Len(rs)
            THEN updateSyntaxFrom_AlwaysCascade(rs1, erow.idx + 1, m_syn, Append(seen, p))
            ELSE [rows |-> rs1, scanned |-> Append(seen, p)]

\* updateSyntax whose recursive call is made on the same row again
RECURSIVE updateSyntaxFrom_RevisitsRow(_, _, _, _)
updateSyntaxFrom_RevisitsRow(rs, p, m_syn, seen) ==
  LET erow == rs[p + 1]
      hl0 == Resize(erow.hl, Len(erow.rendered), HL_NORMAL)
  IN IF m_syn = "none"
       THEN [rows |-> [rs EXCEPT ![p + 1].hl = hl0], scanned |-> Append(seen, p)]
     ELSE
       LET in0 == erow.idx > 0 /\ rs[erow.idx].hl_open_comment
           res == ScanRow(erow.rendered, hl0, 0, TRUE, 0, in0, HLDB)
           is_changed == erow.hl_open_comment # res.in_comment
           rs1 == [rs EXCEPT ![p + 1].hl = res.hl,
                             ![p + 1].hl_open_comment = res.in_comment]
       IN IF is_changed /\ erow.idx + 1 < Len(rs)
            THEN updateSyntaxFrom_RevisitsRow(rs1, erow.idx, m_syn, Append(seen, p))
            ELSE [rows |-> rs1, scanned |-> Append(seen, p)]

\* updateSyntax that never goes on to the next row
RECURSIVE updateSyntaxFrom_NoCascade(_, _, _, _)
updateSyntaxFrom_NoCascade(rs, p, m_syn, seen) ==
  LET erow == rs[p + 1]
      hl0 == Resize(erow.hl, Len(erow.rendered), HL_NORMAL)
  IN IF m_syn = "none"
       THEN [rows |-> [rs EXCEPT ![p + 1].hl = hl0], scanned |-> Append(seen, p)]
     ELSE
       LET in0 == erow.idx > 0 /\ rs[erow.idx].hl_open_comment
           res == ScanRow(erow.rendered, hl0, 0, TRUE, 0, in0, HLDB)
           is_changed == erow.hl_open_comment # res.in_comment
           rs1 == [rs EXCEPT ![p + 1].hl = res.hl,
                             ![p + 1].hl_open_comment = res.in_comment]
       IN IF FALSE /\ erow.idx + 1 < Len(rs)
            THEN updateSyntaxFrom_NoCascade(rs1, erow.idx + 1, m_syn, Append(seen, p))
            ELSE [rows |-> rs1, scanned |-> Append(seen, p)]

\* Editor::updateSyntax on the row at 0-based position p of rs, with the
\* recursive call on the next row when the open-comment flag changed: the
\* rows it leaves, and the positions of the rows it ran on, in call order,
\* behind those of the calls before it (seen)
RECURSIVE updateSyntaxFrom(_, _, _, _)
updateSyntaxFrom(rs, p, m_syn, seen) ==
  LET erow == rs[p + 1]
      hl0 == Resize(erow.hl, Len(erow.rendered), HL_NORMAL)
  IN IF m_syn = "none"
       THEN [rows |-> [rs EXCEPT ![p + 1].hl = hl0], scanned |-> Append(seen, p)]
     ELSE
       LET in0 == erow.idx > 0 /\ rs[erow.idx].hl_open_comment
           res == ScanRow(erow.rendered, hl0, 0, TRUE, 0, in0, HLDB)
           is_changed == erow.hl_open_comment # res.in_comment
           rs1 == [rs EXCEPT ![p + 1].hl = res.hl,
                             ![p + 1].hl_open_comment = res.in_comment]
       IN IF is_changed /\ erow.idx + 1 < Len(rs)
            THEN updateSyntaxFrom(rs1, erow.idx + 1, m_syn, Append(seen, p))
            ELSE [rows |-> rs1, scanned |-> Append(seen, p)]

\* a call of Editor::updateSyntax from outside
updateSyntaxRun(rs, p, m_syn) == updateSyntaxFrom(rs, p, m_syn, <<>>)

\* the rows Editor::updateSyntax leaves
updateSyntax(rs, p, m_syn) == updateSyntaxFrom(rs, p, m_syn, <<>>).rows

\* -------------------------------------------------------- row operations
\* the rendering loop of updateRow: tabs padded to the next tab stop
RECURSIVE Render(_, _)
Render(raw, acc) ==
  IF raw = <<>> THEN acc
  ELSE IF Head(raw) = TAB
    THEN Render(Tail(raw),
                acc \o [k \in 1..(KILO_TAB_STOP - (Len(acc) % KILO_TAB_STOP)) |-> SPACE])
    ELSE Render(Tail(raw), Append(acc, Head(raw)))

\* updateRow that re-renders without updateSyntax
updateRow_NoSyntax(rs, p, syn) ==
  [rs EXCEPT ![p + 1].rendered = Render(rs[p + 1].row, <<>>)]

\* Editor::updateRow on the row at position p
updateRow(rs, p, syn) ==
  updateSyntax([rs EXCEPT ![p + 1].rendered = Render(rs[p + 1].row, <<>>)], p, syn)

\* Editor::convertRowCxToRx: the render column of buffer column cx
RECURSIVE CxToRx(_, _, _, _)
CxToRx(raw, cx, i, rx) ==
  IF i >= cx THEN rx
  ELSE CxToRx(raw, cx, i + 1,
              (IF CharAt(raw, i) = TAB
                 THEN rx + (KILO_TAB_STOP - 1) - (rx % KILO_TAB_STOP)
                 ELSE rx) + 1)

convertRowCxToRx(raw, cx) == CxToRx(raw, cx, 0, 0)

\* convertRowRxToCx that stops one character early (cur_rx >= rx)
RECURSIVE RxToCx_StopsEarly(_, _, _, _)
RxToCx_StopsEarly(raw, rx, cx, cur_rx) ==
  IF cx >= Len(raw) THEN cx
  ELSE LET nxt == (IF raw[cx + 1] = TAB
                     THEN cur_rx + (KILO_TAB_STOP - 1) - (cur_rx % KILO_TAB_STOP)
                     ELSE cur_rx) + 1
       IN IF nxt >= rx THEN cx ELSE RxToCx_StopsEarly(raw, rx, cx + 1, nxt)

\* convertRowRxToCx that counts a tab as one column
RECURSIVE RxToCx_TabIsOneColumn(_, _, _, _)
RxToCx_TabIsOneColumn(raw, rx, cx, cur_rx) ==
  IF cx >= Len(raw) THEN cx
  ELSE IF cur_rx + 1 > rx THEN cx
  ELSE RxToCx_TabIsOneColumn(raw, rx, cx + 1, cur_rx + 1)

\* Editor::convertRowRxToCx
RECURSIVE RxToCx(_, _, _, _)
RxToCx(raw, rx, cx, cur_rx) ==
  IF cx >= Len(raw) THEN cx
  ELSE LET nxt == (IF raw[cx + 1] = TAB
                     THEN cur_rx + (KILO_TAB_STOP - 1) - (cur_rx % KILO_TAB_STOP)
                     ELSE cur_rx) + 1
       IN IF nxt > rx THEN cx ELSE RxToCx(raw, rx, cx + 1, nxt)

convertRowRxToCx(raw, rx) == RxToCx(raw, rx, 0, 0)

\* EditorRow(index): a fresh row
EditorRow(index) ==
  [idx |-> index, row |-> <<>>, rendered |-> <<>>, hl |-> <<>>,
   hl_open_comment |-> FALSE]

\* m_dirty++ on a uint8_t
DirtyInc(d) == (d + 1) % DirtyModulus

\* the guard of insertRow: its return value
insertRowOk(e, yindex) == yindex >= 0 /\ yindex <= Len(e.rows)

\* insertRow that does not renumber the rows behind the new one
insertRow_NoReindex(e, yindex, s) ==
  IF ~insertRowOk(e, yindex) THEN e
  ELSE
    LET n == Len(e.rows)
        ins == [k \in 1..(n + 1) |->
                  IF k <= yindex THEN e.rows[k]
                  ELSE IF k = yindex + 1 THEN [EditorRow(yindex) EXCEPT !.row = s]
                  ELSE e.rows[k - 1]]
    IN [e EXCEPT !.rows = updateRow(ins, yindex, e.syntax),
                 !.dirty = DirtyInc(@)]

\* Editor::insertRow
insertRow(e, yindex, s) ==
  IF ~insertRowOk(e, yindex) THEN e
  ELSE
    LET n == Len(e.rows)
        ins == [k \in 1..(n + 1) |->
                  IF k <= yindex THEN e.rows[k]
                  ELSE IF k = yindex + 1 THEN [EditorRow(yindex) EXCEPT !.row = s]
                  ELSE [e.rows[k - 1] EXCEPT !.idx = @ + 1]]
    IN [e EXCEPT !.rows = updateRow(ins, yindex, e.syntax),
                 !.dirty = DirtyInc(@)]

\* deleteRow whose guard lets the position N through
deleteRow_OffByOne(e, yindex) ==
  IF yindex < 0 \/ yindex > Len(e.rows) THEN e
  ELSE
    LET n == Len(e.rows)
        del == [k \in 1..(n - 1) |->
                  IF k <= yindex THEN e.rows[k]
                  ELSE [e.rows[k + 1] EXCEPT !.idx = @ - 1]]
    IN [e EXCEPT !.rows = del, !.dirty = DirtyInc(@)]

\* Editor::deleteRow
deleteRow(e, yindex) ==
  IF yindex < 0 \/ yindex >= Len(e.rows) THEN e
  ELSE
    LET n == Len(e.rows)
        del == [k \in 1..(n - 1) |->
                  IF k <= yindex THEN e.rows[k]
                  ELSE [e.rows[k + 1] EXCEPT !.idx = @ - 1]]
    IN [e EXCEPT !.rows = del, !.dirty = DirtyInc(@)]

\* an access m_rows[y] with y outside the vector: undefined behaviour
OutOfRange(e, y) == y < 0 \/ y >= Len(e.rows)

\* Editor::insertCharIntoRow on m_rows[y]
insertCharIntoRow(e, y, at, c) ==
  IF OutOfRange(e, y) THEN [e EXCEPT !.ub = TRUE, !.dirty = DirtyInc(@)]
  ELSE
    LET raw == e.rows[y + 1].row
        pos == IF at < 0 \/ at > Len(raw) THEN Len(raw) ELSE at
        raw1 == SubstrTo(raw, pos) \o <<c>> \o SubstrFrom(raw, pos)
    IN [e EXCEPT !.rows = updateRow([e.rows EXCEPT ![y + 1].row = raw1], y, e.syntax),
                 !.dirty = DirtyInc(@)]

\* Editor::appendStringToRow on m_rows[y]
appendStringToRow(e, y, s) ==
  IF OutOfRange(e, y) THEN [e EXCEPT !.ub = TRUE, !.dirty = DirtyInc(@)]
  ELSE [e EXCEPT !.rows = updateRow([e.rows EXCEPT ![y + 1].row = @ \o s], y, e.syntax),
                 !.dirty = DirtyInc(@)]

\* Editor::deleteCharFromRow on m_rows[y]
deleteCharFromRow(e, y, xindex) ==
  IF OutOfRange(e, y) THEN [e EXCEPT !.ub = TRUE]
  ELSE
    LET raw == e.rows[y + 1].row
    IN IF xindex < 0 \/ xindex >= Len(raw) THEN e
       ELSE [e EXCEPT !.rows = updateRow(
                         [e.rows EXCEPT ![y + 1].row =
                            SubstrTo(raw, xindex) \o SubstrFrom(raw, xindex + 1)],
                         y, e.syntax),
                      !.dirty = DirtyInc(@)]

\* ------------------------------------------------------ editor operations
\* erow.row.size() for erow = m_rows[y]; outside the vector the read is
\* undefined and yields the unspecified value g
RowSize(e, y, g) == IF OutOfRange(e, y) THEN g ELSE Len(e.rows[y + 1].row)

\* marks the undefined access m_rows[y] made by a handler
Touch(e, y) == IF OutOfRange(e, y) THEN [e EXCEPT !.ub = TRUE] ELSE e

\* Editor::insertChar
insertChar(e, c) ==
  LET e1 == IF e.cy = Len(e.rows) THEN insertRow(e, e.cy, <<>>) ELSE e
      e2 == insertCharIntoRow(e1, e1.cy, e1.cx, c)
  IN [e2 EXCEPT !.cx = @ + 1]

\* insertNewline that truncates the split row without updateRow
insertNewline_NoRerender(e) ==
  LET e1 ==
        IF e.cx = 0 THEN insertRow(e, e.cy, <<>>)
        ELSE IF OutOfRange(e, e.cy) THEN [e EXCEPT !.ub = TRUE]
        ELSE IF e.cx > Len(e.rows[e.cy + 1].row) THEN [e EXCEPT !.fatal = TRUE]
        ELSE
          LET raw == e.rows[e.cy + 1].row
              a == insertRow(e, e.cy + 1, SubstrFrom(raw, e.cx))
          IN IF insertRowOk(e, e.cy + 1)
               THEN [a EXCEPT !.rows[e.cy + 1].row = SubstrTo(raw, e.cx)]
               ELSE a
  IN [e1 EXCEPT !.cy = e.cy + 1, !.cx = 0]

\* insertNewline that leaves the split row whole
insertNewline_KeepsWholeRow(e) ==
  LET e1 ==
        IF e.cx = 0 THEN insertRow(e, e.cy, <<>>)
        ELSE IF OutOfRange(e, e.cy) THEN [e EXCEPT !.ub = TRUE]
        ELSE IF e.cx > Len(e.rows[e.cy + 1].row) THEN [e EXCEPT !.fatal = TRUE]
        ELSE insertRow(e, e.cy + 1, SubstrFrom(e.rows[e.cy + 1].row, e.cx))
  IN [e1 EXCEPT !.cy = e.cy + 1, !.cx = 0]

\* Editor::insertNewline
insertNewline(e) ==
  LET e1 ==
        IF e.cx = 0 THEN insertRow(e, e.cy, <<>>)
        ELSE IF OutOfRange(e, e.cy) THEN [e EXCEPT !.ub = TRUE]
        ELSE IF e.cx > Len(e.rows[e.cy + 1].row) THEN [e EXCEPT !.fatal = TRUE]
        ELSE
          LET raw == e.rows[e.cy + 1].row
              a == insertRow(e, e.cy + 1, SubstrFrom(raw, e.cx))
          IN IF insertRowOk(e, e.cy + 1)
               THEN [a EXCEPT !.rows =
                       updateRow([a.rows EXCEPT ![e.cy + 1].row = SubstrTo(raw, e.cx)],
                                 e.cy, a.syntax)]
               ELSE a
  IN [e1 EXCEPT !.cy = @ + 1, !.cx = 0]

\* deleteChar that takes the cursor column from the row after appending
deleteChar_CursorAfterJoin(e, g) ==
  IF e.cy = Len(e.rows) THEN e
  ELSE IF e.cx = 0 /\ e.cy = 0 THEN e
  ELSE IF e.cx > 0
    THEN [deleteCharFromRow(e, e.cy, e.cx - 1) EXCEPT !.cx = @ - 1]
  ELSE
    LET e0 == Touch(Touch(e, e.cy), e.cy - 1)
        tail == IF OutOfRange(e, e.cy) THEN <<>> ELSE e.rows[e.cy + 1].row
        e2 == appendStringToRow(e0, e.cy - 1, tail)
        e1 == [e2 EXCEPT !.cx = RowSize(e2, e.cy - 1, g)]
        e3 == deleteRow(e1, e.cy)
    IN [e3 EXCEPT !.cy = @ - 1]

\* deleteChar whose join removes the cursor row without appending its text
deleteChar_DropsJoinedText(e, g) ==
  IF e.cy = Len(e.rows) THEN e
  ELSE IF e.cx = 0 /\ e.cy = 0 THEN e
  ELSE IF e.cx > 0
    THEN [deleteCharFromRow(e, e.cy, e.cx - 1) EXCEPT !.cx = @ - 1]
  ELSE
    LET e0 == Touch(Touch(e, e.cy), e.cy - 1)
        e1 == [e0 EXCEPT !.cx = RowSize(e, e.cy - 1, g)]
        e3 == deleteRow(e1, e.cy)
    IN [e3 EXCEPT !.cy = @ - 1]

\* Editor::deleteChar
deleteChar(e, g) ==
  IF e.cy = Len(e.rows) THEN e
  ELSE IF e.cx = 0 /\ e.cy = 0 THEN e
  ELSE IF e.cx > 0
    THEN [deleteCharFromRow(e, e.cy, e.cx - 1) EXCEPT !.cx = @ - 1]
  ELSE
    LET e0 == Touch(Touch(e, e.cy), e.cy - 1)
        tail == IF OutOfRange(e, e.cy) THEN <<>> ELSE e.rows[e.cy + 1].row
        e1 == [e0 EXCEPT !.cx = RowSize(e, e.cy - 1, g)]
        e2 == appendStringToRow(e1, e.cy - 1, tail)
        e3 == deleteRow(e2, e.cy)
    IN [e3 EXCEPT !.cy = @ - 1]

\* Editor::moveCursor
moveCursor(e, key, g) ==
  LET n == Len(e.rows)
      e1 ==
        IF key = ARROW_UP THEN
          IF e.cy > 0 THEN [e EXCEPT !.cy = @ - 1] ELSE e
        ELSE IF key = ARROW_DOWN THEN
          IF e.cy < n - 1 THEN [e EXCEPT !.cy = @ + 1] ELSE e
        ELSE IF key = ARROW_LEFT THEN
          IF e.cx > 0 THEN [e EXCEPT !.cx = @ - 1]
          ELSE IF e.cy > 0
            THEN [Touch(e, e.cy - 1) EXCEPT !.cy = e.cy - 1,
                                            !.cx = RowSize(e, e.cy - 1, g)]
          ELSE e
        ELSE IF key = ARROW_RIGHT THEN
          IF e.cx < RowSize(e, e.cy, g) THEN [Touch(e, e.cy) EXCEPT !.cx = @ + 1]
          ELSE IF e.cy < n - 1 THEN [Touch(e, e.cy) EXCEPT !.cy = @ + 1, !.cx = 0]
          ELSE Touch(e, e.cy)
        ELSE e
      size == RowSize(e1, e1.cy, g)
  IN [Touch(e1, e1.cy) EXCEPT !.cx = IF e1.cx > size THEN size ELSE e1.cx]

\* the loop of the PAGE_UP / PAGE_DOWN case: times calls of moveCursor
RECURSIVE MoveTimes(_, _, _, _)
MoveTimes(e, key, times, g) ==
  IF times = 0 THEN e ELSE MoveTimes(moveCursor(e, key, g), key, times - 1, g)

\* convertRowCxToRx reads erow.row[i] for every i < m_cx: row[size()] is the
\* terminating '\0', an index behind it is outside the string
CxPastTerminator(e) ==
  e.cy < Len(e.rows) /\ e.cx > Len(e.rows[e.cy + 1].row) + 1

\* scroll that never moves the viewport up to the cursor row
scroll_NeverUp(e) ==
  LET rx == IF e.cy < Len(e.rows)
              THEN convertRowCxToRx(e.rows[e.cy + 1].row, e.cx)
              ELSE e.cx
      ro2 == IF e.cy >= e.rowoff + m_screenrows THEN e.cy - m_screenrows + 1 ELSE e.rowoff
      co1 == IF rx < e.coloff THEN rx ELSE e.coloff
      co2 == IF rx >= co1 + m_screencols THEN rx - m_screencols + 1 ELSE co1
  IN [e EXCEPT !.rx = rx, !.rowoff = ro2, !.coloff = co2,
               !.ub = @ \/ CxPastTerminator(e)]

\* Editor::scroll
scroll(e) ==
  LET rx == IF e.cy < Len(e.rows)
              THEN convertRowCxToRx(e.rows[e.cy + 1].row, e.cx)
              ELSE e.cx
      ro1 == IF e.cy < e.rowoff THEN e.cy ELSE e.rowoff
      ro2 == IF e.cy >= ro1 + m_screenrows THEN e.cy - m_screenrows + 1 ELSE ro1
      co1 == IF rx < e.coloff THEN rx ELSE e.coloff
      co2 == IF rx >= co1 + m_screencols THEN rx - m_screencols + 1 ELSE co1
  IN [e EXCEPT !.rx = rx, !.rowoff = ro2, !.coloff = co2,
               !.ub = @ \/ CxPastTerminator(e)]

\* ------------------------------------------------------------- drawing
\* Editor::convertSyntaxToColor
convertSyntaxToColor(hl) ==
  IF hl = HL_COMMENT \/ hl = HL_MLCOMMENT THEN 36
  ELSE IF hl = HL_KEYWORD1 THEN 33
  ELSE IF hl = HL_KEYWORD2 THEN 32
  ELSE IF hl = HL_STRING THEN 35
  ELSE IF hl = HL_NUMBER THEN 31
  ELSE IF hl = HL_MATCH THEN 34
  ELSE 37

\* what drawRows appends to the output: a character of the text, or an
\* escape sequence "\x1b[<v>m" (v = 0 stands for "\x1b[m")
OutChar(c) == [esc |-> FALSE, v |-> c]
OutEsc(n) == [esc |-> TRUE, v |-> n]

\* the symbol drawn for a control character
CntrlSym(c) == IF c <= 26 THEN 64 + c ELSE 63

\* drawRows that sets the colour at every coloured character
RECURSIVE DrawCells_EscapePerChar(_, _, _, _, _, _)
DrawCells_EscapePerChar(erow, coloff, len, i, current_color, out) ==
  IF i >= len THEN Append(out, OutEsc(39))
  ELSE
    LET c == erow.rendered[coloff + i + 1]
        hl == erow.hl[coloff + i + 1]
        color == convertSyntaxToColor(hl)
    IN IF IsCntrl(c)
         THEN DrawCells_EscapePerChar(erow, coloff, len, i + 1, current_color,
                        out \o <<OutEsc(7), OutChar(CntrlSym(c)), OutEsc(0)>>
                            \o (IF current_color # -1
                                  THEN <<OutEsc(current_color)>> ELSE <<>>))
       ELSE IF hl = HL_NORMAL
         THEN DrawCells_EscapePerChar(erow, coloff, len, i + 1, -1,
                        (IF current_color # -1 THEN Append(out, OutEsc(39)) ELSE out)
                          \o <<OutChar(c)>>)
       ELSE DrawCells_EscapePerChar(erow, coloff, len, i + 1, color,
                      out \o <<OutEsc(color), OutChar(c)>>)

\* the loop of drawRows over one file row: i counts the characters from
\* coloff, len is rendered.size() - coloff (0 when negative), current_color
\* is -1 for the default colour
RECURSIVE DrawCells(_, _, _, _, _, _)
DrawCells(erow, coloff, len, i, current_color, out) ==
  IF i >= len THEN Append(out, OutEsc(39))
  ELSE
    LET c == erow.rendered[coloff + i + 1]
        hl == erow.hl[coloff + i + 1]
        color == convertSyntaxToColor(hl)
    IN IF IsCntrl(c)
         THEN DrawCells(erow, coloff, len, i + 1, current_color,
                        out \o <<OutEsc(7), OutChar(CntrlSym(c)), OutEsc(0)>>
                            \o (IF current_color # -1
                                  THEN <<OutEsc(current_color)>> ELSE <<>>))
       ELSE IF hl = HL_NORMAL
         THEN DrawCells(erow, coloff, len, i + 1, -1,
                        (IF current_color # -1 THEN Append(out, OutEsc(39)) ELSE out)
                          \o <<OutChar(c)>>)
       ELSE DrawCells(erow, coloff, len, i + 1, color,
                      (IF current_color # color THEN Append(out, OutEsc(color)) ELSE out)
                        \o <<OutChar(c)>>)

\* what drawRows appends for the file row erow, before "\x1b[K\r\n"
DrawRow(erow, coloff) ==
  LET len == Len(erow.rendered) - coloff
  IN DrawCells(erow, coloff, IF len < 0 THEN 0 ELSE len, 0, -1, <<>>)

\* ------------------------------------------------------------ file types
C_HL_EXTENSIONS == << <<DOT, 99>>, <<DOT, 104>>, <<DOT, 99, 112, 112>>,
                      <<DOT, 104, 112, 112>> >>

\* m_filename.rfind('.'): 0-based position of the last '.', -1 for npos
RFindDot(name) ==
  LET hits == {p \in 0..(Len(name) - 1) : name[p + 1] = DOT}
  IN IF hits = {} THEN -1 ELSE CHOOSE p \in hits : \A o \in hits : p >= o

\* the updateSyntax(row) loop over all rows in selectSyntaxHighlight
RECURSIVE UpdateAllFrom(_, _, _)
UpdateAllFrom(rs, p, m_syn) ==
  IF p >= Len(rs) THEN rs ELSE UpdateAllFrom(updateSyntax(rs, p, m_syn), p + 1, m_syn)

\* Editor::selectSyntaxHighlight
selectSyntaxHighlight(e) ==
  LET ext == RFindDot(e.filename)
      hit == /\ e.filename # <<>>
             /\ ext # -1
             /\ \E n \in 1..Len(C_HL_EXTENSIONS) :
                  CompareAt(e.filename, ext, C_HL_EXTENSIONS[n])
  IN IF hit THEN [e EXCEPT !.syntax = "c", !.rows = UpdateAllFrom(e.rows, 0, "c")]
     ELSE [e EXCEPT !.syntax = "none"]

\* ------------------------------------------------------------------ find
\* std::copy(saved_hl.begin(), saved_hl.end(), hl.begin()): the entries of hl
\* that the copy overwrites; entries of saved past the end of hl fall
\* outside the vector
CopyOnto(saved, hl) == [k \in 1..Len(hl) |-> IF k <= Len(saved) THEN saved[k] ELSE hl[k]]

\* the restore step without saved_hl.clear()
RestoreSavedHl_KeepsSnapshot(e, f) ==
  IF f.saved_hl = <<>> THEN [e |-> e, f |-> f]
  ELSE IF OutOfRange(e, f.saved_hl_line)
    THEN [e |-> [e EXCEPT !.ub = TRUE], f |-> f]
  ELSE
    LET hl == e.rows[f.saved_hl_line + 1].hl
    IN [e |-> [e EXCEPT !.rows[f.saved_hl_line + 1].hl = CopyOnto(f.saved_hl, hl),
                        !.ub = @ \/ Len(f.saved_hl) > Len(hl)],
        f |-> f]

\* the restore step at the head of findCallback; f holds the function's
\* static variables
RestoreSavedHl(e, f) ==
  IF f.saved_hl = <<>> THEN [e |-> e, f |-> f]
  ELSE IF OutOfRange(e, f.saved_hl_line)
    THEN [e |-> [e EXCEPT !.ub = TRUE], f |-> [f EXCEPT !.saved_hl = <<>>]]
  ELSE
    LET hl == e.rows[f.saved_hl_line + 1].hl
    IN [e |-> [e EXCEPT !.rows[f.saved_hl_line + 1].hl = CopyOnto(f.saved_hl, hl),
                        !.ub = @ \/ Len(f.saved_hl) > Len(hl)],
        f |-> [f EXCEPT !.saved_hl = <<>>]]

\* a key dispatch in which every arrow key searches forward
FindKeyState_ArrowsAllForward(f, key) ==
  IF key \in {ARROW_RIGHT, ARROW_DOWN, ARROW_LEFT, ARROW_UP}
    THEN [f EXCEPT !.direction = 1]
  ELSE [f EXCEPT !.last_match = -1, !.direction = 1]

\* the key dispatch of findCallback: the new last_match and direction
\* (before the "last_match == -1" adjustment)
FindKeyState(f, key) ==
  IF key = ARROW_RIGHT \/ key = ARROW_DOWN THEN [f EXCEPT !.direction = 1]
  ELSE IF key = ARROW_LEFT \/ key = ARROW_UP THEN [f EXCEPT !.direction = -1]
  ELSE [f EXCEPT !.last_match = -1, !.direction = 1]

\* current += direction with the two wrap tests
AdvanceCurrent(current, dir, n) ==
  LET c == current + dir
  IN IF c = -1 THEN n - 1 ELSE IF c = n THEN 0 ELSE c

\* 0-based position of the row the range-for of findCallback binds in its
\* k-th iteration, next to the directional counter current
LoopIndex(k, current) == k

\* the body of the loop of findCallback from its k-th iteration on
RECURSIVE FindLoop(_, _, _, _, _)
FindLoop(e, f, query, k, prev) ==
  IF k >= Len(e.rows) THEN [e |-> e, f |-> f]
  ELSE
    LET n == Len(e.rows)
        current == AdvanceCurrent(prev, f.direction, n)
        at == LoopIndex(k, current)
        row == e.rows[at + 1]
        off == StrFind(row.rendered, query)
    IN IF off = -1 THEN FindLoop(e, f, query, k + 1, current)
       ELSE IF OutOfRange(e, current)
         THEN [e |-> [e EXCEPT !.ub = TRUE], f |-> f]
       ELSE
         LET match_end == IF off + Len(query) > Len(row.hl)
                            THEN Len(row.hl) ELSE off + Len(query)
         IN [e |-> [e EXCEPT !.cy = current,
                             !.cx = convertRowRxToCx(e.rows[current + 1].row, off),
                             !.rowoff = n,
                             !.rows[at + 1].hl = Fill(row.hl, off, match_end, HL_MATCH)],
             f |-> [f EXCEPT !.last_match = current,
                             !.saved_hl_line = current,
                             !.saved_hl = row.hl]]

\* findCallback whose Enter / Escape branch returns without resetting
\* last_match and direction
findCallback_NoResetOnReturn(e, f, query, key) ==
  LET r == RestoreSavedHl(e, f)
  IN IF key = CR \/ key = ESC
       THEN [e |-> r.e, f |-> r.f]
       ELSE
         LET f1 == FindKeyState(r.f, key)
             f2 == IF f1.last_match = -1 THEN [f1 EXCEPT !.direction = 1] ELSE f1
         IN FindLoop(r.e, f2, query, 0, f2.last_match)

\* Editor::findCallback
findCallback(e, f, query, key) ==
  LET r == RestoreSavedHl(e, f)
  IN IF key = CR \/ key = ESC
       THEN [e |-> r.e, f |-> [r.f EXCEPT !.last_match = -1, !.direction = 1]]
       ELSE
         LET f1 == FindKeyState(r.f, key)
             f2 == IF f1.last_match = -1 THEN [f1 EXCEPT !.direction = 1] ELSE f1
         IN FindLoop(r.e, f2, query, 0, f2.last_match)

\* ------------------------------------------------------------------ state
VARIABLES
  m_rows,         \* std::vector<EditorRow>
  m_cx, m_cy,     \* cursor: buffer column and row
  m_rx,           \* cursor render column
  m_rowoff, m_coloff,
  m_dirty,        \* uint8_t modification counter
  m_syntax,       \* "none" or "c"
  m_filename,
  pc,             \* where the program waits for a key: "main", "find",
                  \* "saveas"; or "exited", "crashed"
  quit_times,     \* static of processKeypress
  prompt_s,       \* the input string s of fromPrompt
  find_st,        \* statics of findCallback
  find_saved,     \* locals saved_cx, saved_cy, saved_coloff, saved_rowoff of find
  ub,             \* history: the last handler made an access outside m_rows
  edited,         \* history: the text changed since the last open or save
  session_hl,     \* history: every row's tags when the find session started
  last_call,      \* history: the last direct call of insertRow or deleteRow
  sessions,       \* history: the number of find sessions started
  refreshes       \* history: the calls of refreshScreen since the last key read

vars == <<m_rows, m_cx, m_cy, m_rx, m_rowoff, m_coloff, m_dirty, m_syntax,
          m_filename, pc, quit_times, prompt_s, find_st, find_saved, ub,
          edited, session_hl, last_call, sessions, refreshes>>

\* the editor object as a record, for the handlers
Ed == [rows |-> m_rows, cx |-> m_cx, cy |-> m_cy, rx |-> m_rx,
       rowoff |-> m_rowoff, coloff |-> m_coloff, dirty |-> m_dirty,
       syntax |-> m_syntax, filename |-> m_filename, ub |-> FALSE, fatal |-> FALSE]

RawText(rs) == [k \in 1..Len(rs) |-> rs[k].row]
Tags(rs) == [k \in 1..Len(rs) |-> rs[k].hl]

NoSaved == [cx |-> 0, cy |-> 0, coloff |-> 0, rowoff |-> 0]
NoCall == [op |-> "none", at |-> 0, ret |-> "void"]
FindStatics0 == [last_match |-> -1, direction |-> 1, saved_hl_line |-> 0, saved_hl |-> <<>>]

\* the loop of convertRowsToString from the row at sequence index k on
RECURSIVE JoinRowsFrom(_, _)
JoinRowsFrom(rs, k) ==
  IF k > Len(rs) THEN <<>>
  ELSE rs[k].row \o <<LF>> \o JoinRowsFrom(rs, k + 1)

\* Editor::convertRowsToString
convertRowsToString(rs) == JoinRowsFrom(rs, 1)

\* the erase loop of open(): trailing '\n' and '\r' are dropped from a line
RECURSIVE StripLineEnd(_)
StripLineEnd(line) ==
  IF line # <<>> /\ (line[Len(line)] = LF \/ line[Len(line)] = CR)
    THEN StripLineEnd(SubSeq(line, 1, Len(line) - 1))
    ELSE line

\* the std::getline loop of open() over the file content s: the lines
\* ended by '\n', and a last line without one; cur is the line being read
RECURSIVE ReadLines(_, _)
ReadLines(s, cur) ==
  IF s = <<>> THEN (IF cur = <<>> THEN <<>> ELSE <<StripLineEnd(cur)>>)
  ELSE IF Head(s) = LF
    THEN <<StripLineEnd(cur)>> \o ReadLines(Tail(s), <<>>)
    ELSE ReadLines(Tail(s), Append(cur, Head(s)))

\* the loop of open(): insertRow(m_rows.size(), line) for every line
RECURSIVE LoadLines(_, _)
LoadLines(e, lines) ==
  IF lines = <<>> THEN e
  ELSE LoadLines(insertRow(e, Len(e.rows), Head(lines)), Tail(lines))

\* Editor::open, from the constructed editor
open(name, lines) ==
  LET e0 == [rows |-> <<>>, cx |-> 0, cy |-> 0, rx |-> 0, rowoff |-> 0,
             coloff |-> 0, dirty |-> 0, syntax |-> "none", filename |-> name,
             ub |-> FALSE, fatal |-> FALSE]
      e1 == LoadLines(selectSyntaxHighlight(e0), lines)
  IN [e1 EXCEPT !.dirty = 0]

\* the state when run() first waits for a key, after open(name, lines) when
\* a file was named (name # <<>>) and the first refreshScreen
InitWith(name, lines) ==
  LET e == scroll(open(name, lines))
  IN /\ m_rows = e.rows /\ m_cx = e.cx /\ m_cy = e.cy /\ m_rx = e.rx
     /\ m_rowoff = e.rowoff /\ m_coloff = e.coloff /\ m_dirty = e.dirty
     /\ m_syntax = e.syntax /\ m_filename = e.filename
     /\ pc = "main" /\ quit_times = KILO_QUIT_TIMES /\ prompt_s = <<>>
     /\ find_st = FindStatics0 /\ find_saved = NoSaved
     /\ ub = FALSE /\ edited = FALSE /\ session_hl = <<>>
     /\ last_call = NoCall /\ sessions = 0 /\ refreshes = 1

\* the fields of the editor object take the values of e
Commit(e) ==
  /\ m_rows' = e.rows /\ m_cx' = e.cx /\ m_cy' = e.cy /\ m_rx' = e.rx
  /\ m_rowoff' = e.rowoff /\ m_coloff' = e.coloff /\ m_dirty' = e.dirty
  /\ m_syntax' = e.syntax /\ m_filename' = e.filename

\* the process ends abnormally: nothing else is observed any more
Crash ==
  /\ pc' = "crashed" /\ ub' = TRUE
  /\ UNCHANGED <<m_rows, m_cx, m_cy, m_rx, m_rowoff, m_coloff, m_dirty, m_syntax,
                 m_filename, quit_times, prompt_s, find_st, find_saved, edited,
                 session_hl, last_call, sessions, refreshes>>

\* exit(0) of Ctrl-Q, exit(1) of die()
Exit ==
  /\ pc' = "exited"
  /\ UNCHANGED <<m_rows, m_cx, m_cy, m_rx, m_rowoff, m_coloff, m_dirty, m_syntax,
                 m_filename, quit_times, prompt_s, find_st, find_saved, ub, edited,
                 session_hl, last_call, sessions, refreshes>>

\* what a handler of the main loop leaves outside the editor object:
\* quit_times is reset at the end of processKeypress
MainRest ==
  [pc |-> "main", quit_times |-> KILO_QUIT_TIMES, prompt_s |-> prompt_s,
   find_st |-> find_st, find_saved |-> find_saved, session_hl |-> session_hl,
   sessions |-> sessions, saved |-> FALSE, call |-> NoCall]

\* the end of a handler that left the editor as e and the rest as r: an
\* undefined access may have ended the process; otherwise the next
\* refreshScreen runs scroll() and the program waits for the next key
Finish(e, r) ==
  \/ (scroll(e).ub \/ e.fatal) /\ Crash
  \/ /\ ~e.fatal
     /\ Commit(scroll(e))
     /\ pc' = r.pc /\ quit_times' = r.quit_times /\ prompt_s' = r.prompt_s
     /\ find_st' = r.find_st /\ find_saved' = r.find_saved
     /\ session_hl' = r.session_hl
     /\ last_call' = r.call
     /\ sessions' = r.sessions
     /\ refreshes' = 1
     /\ ub' = scroll(e).ub
     /\ edited' = (IF r.saved THEN FALSE
                   ELSE edited \/ RawText(e.rows) # RawText(m_rows))

\* values an undefined read of a row size may yield (MaxLen: anything larger)
Garbage == 0..MaxLen

\* ---------------------------------------------------- bounds of the model
RowFits(e) ==
  /\ e.cx < MaxLen
  /\ e.cy < Len(e.rows) => Len(e.rows[e.cy + 1].row) < MaxLen
  /\ e.cy = Len(e.rows) => Len(e.rows) < MaxRows

JoinFits(e) ==
  (e.cx = 0 /\ e.cy > 0 /\ e.cy < Len(e.rows))
    => Len(e.rows[e.cy].row) + Len(e.rows[e.cy + 1].row) <= MaxLen

\* ------------------------------------------- processKeypress, by key read
\* default: insertChar(c)
KeyChar(c) ==
  /\ pc = "main"
  /\ RowFits(Ed)
  /\ Finish(insertChar(Ed, c), MainRest)

\* '\r'
KeyEnter ==
  /\ pc = "main"
  /\ Len(m_rows) < MaxRows /\ m_cy <= MaxRows
  /\ Finish(insertNewline(Ed), MainRest)

\* BACKSPACE, CTRL_KEY('h')
KeyBackspace ==
  /\ pc = "main"
  /\ JoinFits(Ed)
  /\ \E g \in Garbage : Finish(deleteChar(Ed, g), MainRest)

\* DEL_KEY
KeyDelete ==
  /\ pc = "main"
  /\ \E g \in Garbage :
       LET e1 == moveCursor(Ed, ARROW_RIGHT, g)
       IN JoinFits(e1) /\ Finish(deleteChar(e1, g), MainRest)

KeyArrow(key) ==
  /\ pc = "main"
  /\ \E g \in Garbage : Finish(moveCursor(Ed, key, g), MainRest)

KeyHome ==
  /\ pc = "main"
  /\ Finish([Ed EXCEPT !.cx = 0], MainRest)

KeyEnd ==
  /\ pc = "main"
  /\ Finish(IF m_cy < Len(m_rows)
              THEN [Ed EXCEPT !.cx = Len(m_rows[m_cy + 1].row)]
              ELSE Ed,
            MainRest)

\* PAGE_UP, PAGE_DOWN
KeyPage(key) ==
  /\ pc = "main"
  /\ \E g \in Garbage :
       LET down == m_rowoff + m_screenrows - 1
           e1 == IF key = PAGE_UP THEN [Ed EXCEPT !.cy = m_rowoff]
                 ELSE [Ed EXCEPT !.cy = IF down > Len(m_rows) THEN Len(m_rows) ELSE down]
       IN Finish(MoveTimes(e1, IF key = PAGE_UP THEN ARROW_UP ELSE ARROW_DOWN,
                           m_screenrows, g),
                 MainRest)

\* CTRL_KEY('q')
KeyCtrlQ ==
  /\ pc = "main"
  /\ IF m_dirty # 0 /\ quit_times > 0
       THEN Finish(Ed, [MainRest EXCEPT !.quit_times = quit_times - 1])
       ELSE Exit

\* the tail of save() once m_filename is set: the file is written, or it
\* cannot be opened and die() ends the process
WriteFile(e, r) ==
  \/ Finish([e EXCEPT !.dirty = 0], [r EXCEPT !.saved = TRUE])
  \/ Exit

\* CTRL_KEY('s')
KeyCtrlS ==
  /\ pc = "main"
  /\ IF m_filename = <<>>
       THEN Finish(Ed, [MainRest EXCEPT !.pc = "saveas", !.prompt_s = <<>>,
                                        !.quit_times = quit_times])
       ELSE WriteFile(Ed, MainRest)

\* CTRL_KEY('f'): find() up to the first readKey of its prompt
KeyCtrlF ==
  /\ pc = "main"
  /\ Finish(Ed, [MainRest EXCEPT
                   !.pc = "find", !.prompt_s = <<>>, !.quit_times = quit_times,
                   !.find_saved = [cx |-> m_cx, cy |-> m_cy,
                                   coloff |-> m_coloff, rowoff |-> m_rowoff],
                   !.session_hl = Tags(m_rows),
                   !.sessions = sessions + 1])

\* CTRL_KEY('l'), '\x1b'
KeyNoop ==
  /\ pc = "main"
  /\ Finish(Ed, MainRest)

\* ------------------------------------------------- fromPrompt, by key read
\* the input string after the key c
PromptInput(s, c) ==
  IF c = DEL_KEY \/ c = CTRL_H \/ c = BACKSPACE
    THEN (IF s # <<>> THEN SubSeq(s, 1, Len(s) - 1) ELSE s)
  ELSE IF c = ESC \/ c = CR THEN s
  ELSE IF ~IsCntrl(c) /\ c < 128 THEN Append(s, c)
  ELSE s

\* the key c makes fromPrompt return
PromptReturns(s, c) == c = ESC \/ (c = CR /\ s # <<>>)

\* fromPrompt that returns the typed text on Escape too
PromptResult_KeepsQuery(s, c) == s

\* the value fromPrompt returns on the key c
PromptResult(s, c) == IF c = ESC THEN <<>> ELSE s

\* history of a find() that has just returned on the key c: whether the
\* session had moved the cursor away from the place find() saved
FindReturned(c) ==
  [op |-> "find", at |-> c,
   ret |-> IF <<m_cx, m_cy>> # <<find_saved.cx, find_saved.cy>>
             THEN "moved" ELSE "stayed"]

\* a key read by the prompt of find(): fromPrompt with findCallback, and the
\* tail of find() and processKeypress when the prompt returns
FindPromptKey(c) ==
  /\ pc = "find"
  /\ LET s1 == PromptInput(prompt_s, c)
         cb == findCallback(Ed, find_st, s1, c)
         back == [cb.e EXCEPT !.cx = find_saved.cx, !.cy = find_saved.cy,
                              !.coloff = find_saved.coloff,
                              !.rowoff = find_saved.rowoff]
     IN IF PromptReturns(prompt_s, c)
          THEN Finish(IF PromptResult(s1, c) = <<>> THEN back ELSE cb.e,
                      [MainRest EXCEPT !.prompt_s = <<>>, !.find_st = cb.f,
                                       !.find_saved = NoSaved,
                                       !.session_hl = <<>>,
                                       !.call = FindReturned(c)])
          ELSE Finish(cb.e, [MainRest EXCEPT !.pc = "find", !.prompt_s = s1,
                                             !.quit_times = quit_times,
                                             !.find_st = cb.f])

\* a key read by the "Save as" prompt of save(), and the tail of save()
SavePromptKey(c) ==
  /\ pc = "saveas"
  /\ (~IsCntrl(c) /\ c < 128) => Len(prompt_s) < MaxQuery
  /\ LET s1 == PromptInput(prompt_s, c)
     IN IF ~PromptReturns(prompt_s, c)
          THEN Finish(Ed, [MainRest EXCEPT !.pc = "saveas", !.prompt_s = s1,
                                           !.quit_times = quit_times])
        ELSE IF PromptResult(s1, c) = <<>>
          THEN Finish(Ed, [MainRest EXCEPT !.prompt_s = <<>>])
        ELSE WriteFile(selectSyntaxHighlight([Ed EXCEPT !.filename = s1]),
                       [MainRest EXCEPT !.prompt_s = <<>>])

\* ----------------------------------------------------------- the program
\* keys the modelled user types into the text, and into a prompt
TypedChars == {CH_a, TAB}
PromptKeys == {CH_a, BACKSPACE, CR, ESC,
               ARROW_UP, ARROW_DOWN}
ArrowKeys == {ARROW_LEFT, ARROW_RIGHT, ARROW_UP, ARROW_DOWN}

\* texts of the C file "a.c" the editor is started on
InitLines == {<<>>, << <<CH_a>> >>, << <<TAB, CH_a>>, <<CH_a>> >>}
CFileName == <<CH_a, DOT, 99>>

Init == \E lines \in InitLines : InitWith(CFileName, lines)

\* the modification counter stays within the model's bound
DirtyCap == m_dirty < MaxDirty

TypeChar == DirtyCap /\ \E c \in TypedChars : KeyChar(c)
Enter == DirtyCap /\ KeyEnter
Backspace == DirtyCap /\ KeyBackspace
Delete == DirtyCap /\ KeyDelete
Arrow == \E key \in ArrowKeys : KeyArrow(key)
Page == \E key \in {PAGE_UP, PAGE_DOWN} : KeyPage(key)
StartFind == sessions < MaxSessions /\ KeyCtrlF
\* the query stays within n characters when the key c is read
QueryFits(c, n) == (~IsCntrl(c) /\ c < 128) => Len(prompt_s) < n
FindKey == \E c \in PromptKeys : QueryFits(c, MaxQuery) /\ FindPromptKey(c)
SaveKey == \E c \in PromptKeys : SavePromptKey(c)

\* the main specification: editing, cursor movement, saving and search
Next ==
  \/ TypeChar
  \/ Enter
  \/ Backspace
  \/ Delete
  \/ Arrow
  \/ KeyHome
  \/ KeyEnd
  \/ Page
  \/ KeyCtrlS
  \/ StartFind
  \/ KeyNoop
  \/ FindKey

Spec == Init /\ [][Next]_vars

\* ------------------------------------------- the row store called directly
\* texts and positions the modelled caller passes
CallLines == {<<>>, <<CH_a>>, <<TAB>>}
CallPositions == -1..(MaxRows + 1)

\* a call of the public insertRow(at, s) or deleteRow(at) that left the
\* editor as e; no key is read and the screen is not refreshed
Called(e, op, at, ret) ==
  /\ pc = "main"
  /\ Commit(e)
  /\ last_call' = [op |-> op, at |-> at, ret |-> ret]
  /\ edited' = (edited \/ RawText(e.rows) # RawText(m_rows))
  /\ UNCHANGED <<pc, quit_times, prompt_s, find_st, find_saved, ub, session_hl,
                 sessions, refreshes>>

CallInsertRow ==
  /\ DirtyCap
  /\ \E at \in CallPositions, s \in CallLines :
       /\ insertRowOk(Ed, at) => Len(m_rows) < MaxRows
       /\ Called(insertRow(Ed, at, s), "insertRow", at,
                 IF insertRowOk(Ed, at) THEN "true" ELSE "false")

CallDeleteRow ==
  /\ DirtyCap
  /\ \E at \in CallPositions : Called(deleteRow(Ed, at), "deleteRow", at, "void")

NextRowStore ==
  \/ CallInsertRow
  \/ CallDeleteRow
  \/ TypeChar
  \/ Enter
  \/ Backspace
  \/ KeyCtrlS

SpecRowStore == Init /\ [][NextRowStore]_vars

\* ---------------------------------------- editing with every typed key
\* CTRL_KEY('j') is read as the character 10 and reaches the default case
TypeCtrlJ == DirtyCap /\ KeyChar(LF)

NextEdit ==
  \/ TypeChar
  \/ TypeCtrlJ
  \/ Enter
  \/ Backspace
  \/ Delete
  \/ Arrow
  \/ KeyHome
  \/ KeyEnd
  \/ KeyCtrlS

SpecEdit == Init /\ [][NextEdit]_vars

\* ------------------------------------ editing with Delete as the only
\* key that removes text
NextDelete ==
  \/ TypeChar
  \/ Enter
  \/ Delete
  \/ Arrow

SpecDelete == Init /\ [][NextDelete]_vars

\* ------------------------------- a long editing session on a named file
\* the modification counter runs free here
InitDirty == InitWith(CFileName, <<>>)
TypeLetter == KeyChar(CH_a)

NextDirty ==
  \/ TypeLetter
  \/ KeyBackspace
  \/ KeyCtrlS

SpecDirty == InitDirty /\ [][NextDirty]_vars

\* ------------------------------------ quitting during a long editing session
NextQuit ==
  \/ TypeLetter
  \/ KeyBackspace
  \/ KeyCtrlQ
  \/ KeyNoop

SpecQuit == InitDirty /\ [][NextQuit]_vars

\* ------------------------------------- search sessions on a fixed document
MaxFindQuery == 2

\* texts of the file searched: none, one row, and three rows with the letter
\* once, twice, behind a tab, or not at all
FindDocs ==
  {<<>>,
   << <<CH_a>> >>,
   << <<>>, <<CH_a>>, <<CH_a, CH_a>> >>,
   << <<TAB, CH_a>>, <<>>, <<CH_a>> >>}

InitFind == \E lines \in FindDocs : InitWith(CFileName, lines)

FindKeyLong == \E c \in PromptKeys : QueryFits(c, MaxFindQuery) /\ FindPromptKey(c)

NextFind ==
  \/ Arrow
  \/ StartFind
  \/ FindKeyLong

SpecFind == InitFind /\ [][NextFind]_vars

\* ------------------------------------------------ files of many names
MaxNameLen == 3

\* names open() is given: every name of up to MaxNameLen characters out of
\* '.', 'c' and 's', and a.c, a.h, a.cc, a.cpp, a.hpp, a.css, a.txt
FileNames ==
  UNION {[1..n -> {DOT, 99, 115}] : n \in 1..MaxNameLen}
    \cup {<<CH_a, DOT, 99>>, <<CH_a, DOT, 104>>, <<CH_a, DOT, 99, 99>>,
           <<CH_a, DOT, 99, 112, 112>>, <<CH_a, DOT, 104, 112, 112>>,
           <<CH_a, DOT, 99, 115, 115>>, <<CH_a, DOT, 116, 120, 116>>}

InitNames == \E name \in FileNames : InitWith(name, << <<CH_a>>, <<>> >>)

NextNames ==
  \/ Arrow
  \/ KeyNoop

SpecNames == InitNames /\ [][NextNames]_vars

\* --------------------------------- a search session with all arrow keys
FindKeyAny ==
  \E c \in PromptKeys \cup ArrowKeys : QueryFits(c, MaxFindQuery) /\ FindPromptKey(c)

NextDirection ==
  \/ StartFind
  \/ FindKeyAny

SpecDirection == InitFind /\ [][NextDirection]_vars

\* ------------------------------------------ one search session after another
MaxFindSessions == 2

StartFindAgain == sessions < MaxFindSessions /\ KeyCtrlF

NextSessions ==
  \/ Arrow
  \/ StartFindAgain
  \/ FindKeyLong

SpecSessions == InitFind /\ [][NextSessions]_vars

\* ------------------------------------------- removing text from a file
\* texts of the file: none, two rows, and four rows that all differ
JoinDocs ==
  {<<>>,
   << <<>>, <<CH_a>> >>,
   << <<CH_a>>, <<TAB>>, <<CH_a, TAB>>, <<>> >>}

InitJoin == \E lines \in JoinDocs : InitWith(CFileName, lines)

\* BACKSPACE on rows of any length
BackspaceAny ==
  /\ pc = "main"
  /\ \E g \in Garbage : Finish(deleteChar(Ed, g), MainRest)

NextJoin ==
  \/ BackspaceAny
  \/ Arrow
  \/ Page

SpecJoin == InitJoin /\ [][NextJoin]_vars

\* ------------------------------------------ splitting and joining rows
MaxSplitRows == 3
MaxSplitEdits == 3

\* texts of the file: one row, and two rows that differ
SplitDocs ==
  {<< <<CH_a, TAB>> >>,
   << <<CH_a>>, <<TAB, CH_a>> >>}

InitSplit == \E lines \in SplitDocs : InitWith(CFileName, lines)

\* history of a key: the text and the cursor it found
FoundAt(op) ==
  [op |-> op, at |-> m_cy,
   ret |-> [text |-> RawText(m_rows), cx |-> m_cx, cy |-> m_cy]]

\* '\r' with the cursor on a row
SplitEnter ==
  /\ pc = "main" /\ m_dirty < MaxSplitEdits
  /\ Len(m_rows) < MaxSplitRows /\ m_cy < Len(m_rows)
  /\ Finish(insertNewline(Ed), [MainRest EXCEPT !.call = FoundAt("insertNewline")])

\* BACKSPACE; right after an Enter the history keeps what that Enter found
SplitBackspace ==
  /\ pc = "main" /\ m_dirty < MaxSplitEdits
  /\ \E g \in Garbage :
       Finish(deleteChar(Ed, g),
              [MainRest EXCEPT !.call =
                 IF last_call.op = "insertNewline"
                   THEN [last_call EXCEPT !.op = "insertNewline, deleteChar"]
                   ELSE FoundAt("deleteChar")])

NextSplit ==
  \/ SplitEnter
  \/ SplitBackspace
  \/ Arrow

SpecSplit == InitSplit /\ [][NextSplit]_vars

\* --------------------------- joining and splitting rows of a C file
\* texts of the file: comment markers whole, and in halves on two rows
SeamDocs ==
  {<< <<SLASH>>, <<SLASH, STAR>>, <<CH_a>> >>,
   << <<SLASH, STAR>>, <<STAR, SLASH>>, <<CH_a>> >>,
   << <<SLASH>>, <<STAR>>, <<CH_a>> >>}

InitSeam == \E lines \in SeamDocs : InitWith(CFileName, lines)

NextSeam ==
  \/ BackspaceAny
  \/ SplitEnter
  \/ Arrow

SpecSeam == InitSeam /\ [][NextSeam]_vars

\* -------------------------- the loops of run() and fromPrompt, step by step
\* here a key handler and the refreshScreen that follows it are two steps:
\* pc is also "run_loop" (run() about to call refreshScreen), "find_loop"
\* and "saveas_loop" (fromPrompt about to call refreshScreen)
MaxLoopEdits == 2

\* a handler that reads its next key without going back to the loop head
LoopHead_ReadsAgain(p) == p

\* the loop head control reaches when the handler that ran goes on to read
\* its next key at p: processKeypress returns into the loop of run(), the
\* callback returns into the loop of fromPrompt
LoopHead(p) ==
  IF p = "main" THEN "run_loop"
  ELSE IF p = "find" THEN "find_loop"
  ELSE "saveas_loop"

\* the readKey that follows the refreshScreen of the loop head h
ReadAfter(h) ==
  IF h = "run_loop" THEN "main"
  ELSE IF h = "find_loop" THEN "find"
  ELSE "saveas"

\* the end of a handler, up to the head of the loop it returns to
Handled(e, r) ==
  \/ (e.ub \/ e.fatal) /\ Crash
  \/ /\ ~e.fatal
     /\ Commit(e)
     /\ pc' = LoopHead(r.pc)
     /\ quit_times' = r.quit_times /\ prompt_s' = r.prompt_s
     /\ find_st' = r.find_st /\ find_saved' = r.find_saved
     /\ session_hl' = r.session_hl
     /\ last_call' = r.call
     /\ sessions' = r.sessions
     /\ refreshes' = 0
     /\ ub' = e.ub
     /\ edited' = (edited \/ RawText(e.rows) # RawText(m_rows))

\* refreshScreen() at the head of a loop
StepRefresh ==
  /\ pc \in {"run_loop", "find_loop", "saveas_loop"}
  /\ LET e == scroll(Ed)
     IN \/ e.ub /\ Crash
        \/ /\ Commit(e)
           /\ pc' = ReadAfter(pc)
           /\ refreshes' = refreshes + 1
           /\ ub' = (ub \/ e.ub)
           /\ UNCHANGED <<quit_times, prompt_s, find_st, find_saved, edited,
                          session_hl, last_call, sessions>>

\* processKeypress: default
StepChar ==
  /\ pc = "main" /\ m_dirty < MaxLoopEdits /\ RowFits(Ed)
  /\ \E c \in TypedChars : Handled(insertChar(Ed, c), MainRest)

\* processKeypress: BACKSPACE
StepBackspace ==
  /\ pc = "main" /\ m_dirty < MaxLoopEdits /\ JoinFits(Ed)
  /\ \E g \in Garbage : Handled(deleteChar(Ed, g), MainRest)

\* processKeypress: the arrow keys
StepArrow ==
  /\ pc = "main"
  /\ \E key \in ArrowKeys, g \in Garbage : Handled(moveCursor(Ed, key, g), MainRest)

\* processKeypress: CTRL_KEY('f'), into find() and fromPrompt
StepCtrlF ==
  /\ pc = "main" /\ sessions < MaxSessions
  /\ Handled(Ed, [MainRest EXCEPT
                    !.pc = "find", !.prompt_s = <<>>, !.quit_times = quit_times,
                    !.find_saved = [cx |-> m_cx, cy |-> m_cy,
                                    coloff |-> m_coloff, rowoff |-> m_rowoff],
                    !.session_hl = Tags(m_rows),
                    !.sessions = sessions + 1])

\* fromPrompt of find(): a key and the callback; on return the tail of
\* find() and of processKeypress
StepFindKey ==
  /\ pc = "find"
  /\ \E c \in PromptKeys :
       /\ QueryFits(c, MaxQuery)
       /\ LET s1 == PromptInput(prompt_s, c)
              cb == findCallback(Ed, find_st, s1, c)
              back == [cb.e EXCEPT !.cx = find_saved.cx, !.cy = find_saved.cy,
                                   !.coloff = find_saved.coloff,
                                   !.rowoff = find_saved.rowoff]
          IN IF PromptReturns(prompt_s, c)
               THEN Handled(IF PromptResult(s1, c) = <<>> THEN back ELSE cb.e,
                            [MainRest EXCEPT !.prompt_s = <<>>, !.find_st = cb.f,
                                             !.find_saved = NoSaved,
                                             !.session_hl = <<>>,
                                             !.call = FindReturned(c)])
               ELSE Handled(cb.e, [MainRest EXCEPT !.pc = "find", !.prompt_s = s1,
                                                   !.quit_times = quit_times,
                                                   !.find_st = cb.f])

\* ---------------------------------- fromPrompt of find(), step by step
\* the branch of fromPrompt that calls the callback for the key c read with
\* the input s: "cb_esc", "cb_enter" (both followed by return) or "cb_tail"
\* (the end of the loop body)
CallbackAt(s, c) ==
  IF c = ESC THEN "cb_esc"
  ELSE IF c = CR /\ s # <<>> THEN "cb_enter"
  ELSE "cb_tail"

\* an Enter branch without its return: control falls to the end of the body
AfterCallback_EnterFallsThrough(at) ==
  IF at = "cb_esc" THEN "return"
  ELSE IF at = "cb_enter" THEN "cb_tail"
  ELSE "find"

\* where control goes after the callback called at the position at: out of
\* fromPrompt, or to the read of the next key of the prompt
AfterCallback(at) ==
  IF at = "cb_esc" \/ at = "cb_enter" THEN "return" ELSE "find"

\* history of the key c read by fromPrompt: the calls of the callback for
\* it, whether fromPrompt has returned, and the value it returned
PromptKeyRead(c) ==
  [op |-> "fromPrompt", at |-> c,
   ret |-> [calls |-> 0, ended |-> FALSE, value |-> <<>>]]

\* fromPrompt: readKey and the branch on the key, up to the callback
PromptRead ==
  /\ pc = "find"
  /\ \E c \in PromptKeys :
       /\ QueryFits(c, MaxFindQuery)
       /\ prompt_s' = PromptInput(prompt_s, c)
       /\ pc' = CallbackAt(prompt_s, c)
       /\ last_call' = PromptKeyRead(c)
  /\ refreshes' = 0
  /\ UNCHANGED <<m_rows, m_cx, m_cy, m_rx, m_rowoff, m_coloff, m_dirty, m_syntax,
                 m_filename, quit_times, find_st, find_saved, ub, edited,
                 session_hl, sessions>>

\* fromPrompt: callback(s, c), that is findCallback, and what follows it:
\* return into find() and processKeypress, or the end of the loop body
PromptCallback ==
  /\ pc \in {"cb_esc", "cb_enter", "cb_tail"}
  /\ LET cb == findCallback(Ed, find_st, prompt_s, last_call.at)
         value == IF pc = "cb_esc" THEN <<>> ELSE prompt_s
         back == [cb.e EXCEPT !.cx = find_saved.cx, !.cy = find_saved.cy,
                              !.coloff = find_saved.coloff,
                              !.rowoff = find_saved.rowoff]
         calls == last_call.ret.calls + 1
     IN IF AfterCallback(pc) = "return"
          THEN Handled(IF value = <<>> THEN back ELSE cb.e,
                       [MainRest EXCEPT
                          !.prompt_s = <<>>, !.find_st = cb.f,
                          !.find_saved = NoSaved, !.session_hl = <<>>,
                          !.call = [last_call EXCEPT
                                      !.ret = [calls |-> calls, ended |-> TRUE,
                                               value |-> value]]])
        ELSE IF AfterCallback(pc) = "find"
          THEN Handled(cb.e,
                       [MainRest EXCEPT
                          !.pc = "find", !.quit_times = quit_times,
                          !.find_st = cb.f,
                          !.call = [last_call EXCEPT !.ret.calls = calls]])
        ELSE
          /\ Commit(cb.e) /\ find_st' = cb.f /\ pc' = AfterCallback(pc)
          /\ last_call' = [last_call EXCEPT !.ret.calls = calls]
          /\ UNCHANGED <<quit_times, prompt_s, find_saved, ub, edited,
                         session_hl, sessions, refreshes>>

NextPrompt ==
  \/ StartFindAgain
  \/ PromptRead
  \/ PromptCallback
  \/ StepRefresh

SpecPrompt == InitFind /\ [][NextPrompt]_vars

NextLoop ==
  \/ StepRefresh
  \/ StepChar
  \/ StepBackspace
  \/ StepArrow
  \/ StepCtrlF
  \/ StepFindKey

SpecLoop == Init /\ [][NextLoop]_vars

\* ------------------------------------------ editing a C file with comments
MaxSynRows == 3
MaxSynLen == 2
MaxSynEdits == 3

\* keys typed into the text: the characters of the comment markers and a
\* letter
SynChars == {SLASH, STAR, CH_a}

\* texts of the file opened: three empty rows, an open comment over two more
\* rows, and a comment closed on the second row
SynDocs ==
  {<< <<>>, <<>>, <<>> >>,
   << <<SLASH, STAR>>, <<>>, <<CH_a>> >>,
   << <<SLASH, STAR>>, <<STAR, SLASH>>, <<CH_a>> >>}

InitSyntax == \E lines \in SynDocs : InitWith(CFileName, lines)

\* the cursor is on a row that can take one more character
SynFits(e) ==
  /\ Len(e.rows) <= MaxSynRows
  /\ e.cy < Len(e.rows)
  /\ Len(e.rows[e.cy + 1].row) < MaxSynLen

\* the file has been modified fewer than MaxSynEdits times
SynEditsLeft == m_dirty < MaxSynEdits

\* history of a key handled at the cursor row: the row's open-comment flag
\* before the key
EditedAt(op) ==
  [op |-> op, at |-> m_cy,
   ret |-> IF m_cy < Len(m_rows) /\ m_rows[m_cy + 1].hl_open_comment
             THEN "open" ELSE "closed"]

\* default: insertChar(c)
SynType ==
  /\ SynEditsLeft /\ pc = "main" /\ SynFits(Ed)
  /\ \E c \in SynChars :
       Finish(insertChar(Ed, c), [MainRest EXCEPT !.call = EditedAt("insertChar")])

\* BACKSPACE, with a character of the cursor row in front of the cursor
SynBackspace ==
  /\ SynEditsLeft /\ pc = "main"
  /\ m_cx > 0 /\ m_cy < Len(m_rows)
  /\ \E g \in Garbage :
       Finish(deleteChar(Ed, g), [MainRest EXCEPT !.call = EditedAt("deleteChar")])

NextSyntax ==
  \/ SynType
  \/ SynBackspace
  \/ Arrow

SpecSyntax == InitSyntax /\ [][NextSyntax]_vars

\* ------------------------------------- editing a file without a file type
\* a file name without extension: selectSyntaxHighlight leaves m_syntax null
PlainFileName == <<CH_a>>

PlainDocs == {<< <<CH_a>> >>, << <<CH_a>>, <<CH_a>> >>, << <<TAB>>, <<CH_a>> >>}

InitPlain == \E lines \in PlainDocs : InitWith(PlainFileName, lines)

NextPlain ==
  \/ TypeChar
  \/ Backspace
  \/ Arrow
  \/ StartFind
  \/ FindKey

SpecPlain == InitPlain /\ [][NextPlain]_vars

\* ------------------------------------------ editing a C file with keywords
MaxKwLen == 3
MaxKwEdits == 3
CH_i == 105
CH_f == 102

\* keys typed into the text: the letters of the keyword "if", another
\* letter, and a quote
KwChars == {CH_i, CH_f, CH_a, DQUOTE}

\* texts of the file opened: an empty row, and the keyword alone
KwDocs == {<< <<>> >>, << <<CH_i, CH_f>> >>}

InitKeyword == \E lines \in KwDocs : InitWith(CFileName, lines)

KwEditsLeft == m_dirty < MaxKwEdits

\* default: insertChar(c)
KwType ==
  /\ KwEditsLeft /\ pc = "main"
  /\ m_cy < Len(m_rows) /\ Len(m_rows[m_cy + 1].row) < MaxKwLen
  /\ \E c \in KwChars : Finish(insertChar(Ed, c), MainRest)

\* BACKSPACE, with a character of the cursor row in front of the cursor
KwBackspace ==
  /\ KwEditsLeft /\ pc = "main"
  /\ m_cx > 0 /\ m_cy < Len(m_rows)
  /\ \E g \in Garbage : Finish(deleteChar(Ed, g), MainRest)

NextKeyword ==
  \/ KwType
  \/ KwBackspace
  \/ Arrow

SpecKeyword == InitKeyword /\ [][NextKeyword]_vars

\* --------------------------------------- cursor columns of a row with tabs
MaxConvLen == 3

\* the rows of tabs and letters up to MaxConvLen characters
ConvRows == UNION {[1..n -> {TAB, CH_a}] : n \in 0..MaxConvLen}

InitConvert == \E raw \in ConvRows : InitWith(PlainFileName, <<raw>>)

\* a call convertRowRxToCx(m_rows[m_cy], rx) with rx inside the rendered row
\* or just behind it: the editor is left as it is
CallRxToCx ==
  /\ pc = "main" /\ m_cy < Len(m_rows)
  /\ \E rx \in 0..Len(m_rows[m_cy + 1].rendered) :
       last_call' = [op |-> "convertRowRxToCx", at |-> rx,
                     ret |-> convertRowRxToCx(m_rows[m_cy + 1].row, rx)]
  /\ UNCHANGED <<m_rows, m_cx, m_cy, m_rx, m_rowoff, m_coloff, m_dirty, m_syntax,
                 m_filename, pc, quit_times, prompt_s, find_st, find_saved, ub,
                 edited, session_hl, sessions, refreshes>>

NextConvert ==
  \/ Arrow
  \/ CallRxToCx

SpecConvert == InitConvert /\ [][NextConvert]_vars

\* ------------------------------- refreshing after a row was taken away
\* texts of the file opened
ClampDocs == {<< <<CH_a>>, <<>> >>, << <<CH_a, CH_a>>, <<CH_a>> >>,
              << <<TAB>>, <<CH_a>>, <<>> >>}

InitClamp == \E lines \in ClampDocs : InitWith(PlainFileName, lines)

\* a call of the public deleteRow(at)
CallDeleteAny ==
  \E at \in CallPositions : Called(deleteRow(Ed, at), "deleteRow", at, "void")

NextClamp ==
  \/ Arrow
  \/ KeyEnd
  \/ KeyNoop
  \/ CallDeleteAny

SpecClamp == InitClamp /\ [][NextClamp]_vars

\* ================================================================ claims
Range(f) == {f[k] : k \in DOMAIN f}

\* C1: for every row, after any sequence of editor operations (row and
\* character edits, the re-highlight cascade, find keystrokes), the tag
\* array hl has exactly as many entries as the rendered text has characters.
C1_HlLenEqualsRendered ==
  \A k \in 1..Len(m_rows) : Len(m_rows[k].hl) = Len(m_rows[k].rendered)

\* a find keystroke has overlaid MATCH on a row holding a tab, in a document
\* of two rows
C1_Witness ==
  /\ pc = "find"
  /\ Len(m_rows) = 2
  /\ \E k \in 1..Len(m_rows) :
       /\ TAB \in Range(m_rows[k].row)
       /\ HL_MATCH \in Range(m_rows[k].hl)
       /\ Len(m_rows[k].hl) = KILO_TAB_STOP + 1

\* the render column reached after the first i characters of raw, each tab
\* advancing to the next multiple of the tab stop
RECURSIVE ColAfter(_, _)
ColAfter(raw, i) ==
  IF i = 0 THEN 0
  ELSE LET c == ColAfter(raw, i - 1)
       IN IF raw[i] = TAB THEN ((c \div KILO_TAB_STOP) + 1) * KILO_TAB_STOP
          ELSE c + 1

\* the tab expansion of raw, column by column
TabExpand(raw) ==
  [j \in 1..ColAfter(raw, Len(raw)) |->
     LET i == CHOOSE i \in 1..Len(raw) :
                ColAfter(raw, i - 1) < j /\ j <= ColAfter(raw, i)
     IN IF raw[i] = TAB THEN SPACE ELSE raw[i]]

\* C2: for every row, after any sequence of editor operations, the rendered
\* text is the tab expansion of the present raw text: no row keeps a
\* rendered text computed from an earlier raw content.
C2_RenderedIsTabExpansion ==
  \A k \in 1..Len(m_rows) : m_rows[k].rendered = TabExpand(m_rows[k].row)

\* an edit produced a row with a tab behind a letter, rendered as the letter
\* and seven spaces
C2_Witness ==
  /\ edited
  /\ \E k \in 1..Len(m_rows) :
       /\ m_rows[k].row = <<CH_a, TAB>>
       /\ m_rows[k].rendered = <<CH_a>> \o [j \in 1..(KILO_TAB_STOP - 1) |-> SPACE]

\* C3: after any sequence of insertRow and deleteRow calls, direct or through
\* insertChar, insertNewline, deleteChar and open, the row stored at
\* position i has idx = i, for every i in 0..N-1.
C3_IdxIsPosition ==
  \A k \in 1..Len(m_rows) : m_rows[k].idx = k - 1

\* insertRow(0, s) has just shifted an existing row to position 1
C3_Witness ==
  /\ last_call.op = "insertRow" /\ last_call.at = 0 /\ last_call.ret = "true"
  /\ Len(m_rows) = 2
  /\ m_rows[2].idx = 1

\* C4: insertRow with a position outside [0, N] returns failure, deleteRow
\* with a position outside [0, N) returns without effect; either way the
\* row sequence (every row's text, idx, tags and continuation flag) and the
\* modification counter are unchanged.
C4_InvalidPositionNoEffect ==
  [][/\ (last_call'.op = "insertRow"
           /\ (last_call'.at < 0 \/ last_call'.at > Len(m_rows)))
          => (last_call'.ret = "false" /\ m_rows' = m_rows /\ m_dirty' = m_dirty)
     /\ (last_call'.op = "deleteRow"
           /\ (last_call'.at < 0 \/ last_call'.at >= Len(m_rows)))
          => (m_rows' = m_rows /\ m_dirty' = m_dirty)]_vars

\* insertRow(N + 1, s) on a document with rows has just returned false
C4_Witness ==
  /\ last_call.op = "insertRow" /\ last_call.ret = "false"
  /\ Len(m_rows) >= 1
  /\ last_call.at = Len(m_rows) + 1

\* C5: for every document reachable by keypresses, joining the rows' raw
\* contents with a newline after each and splitting the result on newlines
\* gives back the same row contents (no raw content holds a newline).
C5_RoundTrip ==
  pc = "main" => ReadLines(convertRowsToString(m_rows), <<>>) = RawText(m_rows)

\* C6: whenever the text has been mutated since the last open or successful
\* save, the modification counter is non-zero, after any number of edits.
C6_EditedImpliesDirty ==
  edited => m_dirty # 0

\* the first row, scanning from row r in direction dir and wrapping, whose
\* rendered text contains query; -1 when no row does
ScanOrder(r, dir, n) == [j \in 1..n |-> (r + dir * j + n * n) % n]
FirstMatchFrom(rs, r, dir, query) ==
  LET n == Len(rs)
      order == ScanOrder(r, dir, n)
      hits == {j \in 1..n : StrFind(rs[order[j] + 1].rendered, query) # -1}
  IN IF hits = {} THEN -1
     ELSE order[CHOOSE j \in hits : \A o \in hits : j <= o]

\* C7: after a find keystroke that finds a match, the cursor row is a row
\* whose rendered text contains the query, and the cursor column is
\* convertRowRxToCx of the first occurrence of the query in that row.
C7_CursorOnMatch ==
  (pc = "find" /\ find_st.last_match # -1) =>
    /\ m_cy < Len(m_rows)
    /\ LET r == m_rows[m_cy + 1]
           off == StrFind(r.rendered, prompt_s)
       IN off # -1 /\ m_cx = convertRowRxToCx(r.row, off)

\* C8: with a previous match at row r, a forward key moves the match to the
\* first row containing the query in the order r+1, r+2, ... wrapping from
\* N-1 to 0, and a backward key in the order r-1, r-2, ... wrapping from 0
\* to N-1.
C8_ArrowMovesToNextMatch ==
  [][\A key \in ArrowKeys :
       (/\ find_st.last_match # -1
        /\ FindPromptKey(key)
        /\ pc' = "find")
       => LET dir == IF key \in {ARROW_RIGHT, ARROW_DOWN} THEN 1 ELSE -1
              want == FirstMatchFrom(m_rows, find_st.last_match, dir, prompt_s)
          IN m_cy' = want /\ find_st'.last_match = want]_vars

\* C9: during a find session at most one row differs from its tags at the
\* start of the session; it is the cursor row, and it differs by MATCH on
\* exactly [offset, min(offset + len(query), len(rendered))).
C9_OnlyMatchRowOverlaid ==
  pc = "find" =>
    LET changed == {k \in 1..Len(m_rows) : m_rows[k].hl # session_hl[k]}
    IN /\ Cardinality(changed) <= 1
       /\ \A k \in changed :
            LET off == StrFind(m_rows[k].rendered, prompt_s)
            IN /\ k = m_cy + 1
               /\ off # -1
               /\ m_rows[k].hl =
                    Fill(session_hl[k], off,
                         Min(off + Len(prompt_s), Len(m_rows[k].rendered)),
                         HL_MATCH)

\* C10: when a find session ends, by Enter or Escape, every row's tags are
\* the tags it had when the session started (stated for the sessions whose
\* last keystroke stayed inside the tag arrays).
C10_SessionEndRestoresTags ==
  [][(pc = "find" /\ pc' = "main" /\ ~ub') => Tags(m_rows') = session_hl]_vars

\* C11: when the find prompt is cancelled with Escape, cursor column, cursor
\* row and both scroll offsets are the values find() saved when the session
\* started, whatever the session visited; when it is confirmed with Enter
\* the cursor stays where the last keystroke of the session left it.
C11_EscapeRestoresEnterKeeps ==
  [][/\ (FindPromptKey(ESC) /\ pc' = "main")
          => (/\ m_cx' = find_saved.cx /\ m_cy' = find_saved.cy
              /\ m_coloff' = find_saved.coloff /\ m_rowoff' = find_saved.rowoff)
     /\ (FindPromptKey(CR) /\ pc' = "main")
          => (m_cx' = m_cx /\ m_cy' = m_cy)]_vars

\* find() has just returned on Escape from a session that had moved the
\* cursor
C11_Witness ==
  /\ last_call.op = "find" /\ last_call.at = ESC /\ last_call.ret = "moved"
  /\ pc = "main"

\* a step in which the find prompt read a key, went on, and no row's rendered
\* text contains the query as it is after the key
NoMatchKeystroke ==
  /\ \E c \in PromptKeys : FindPromptKey(c)
  /\ pc' = "find"
  /\ \A k \in 1..Len(m_rows) : StrFind(m_rows[k].rendered, prompt_s') = -1

CursorAndScrollKept ==
  /\ m_cx' = m_cx /\ m_cy' = m_cy
  /\ m_rowoff' = m_rowoff /\ m_coloff' = m_coloff

C13_EmptyQueryIsNoOp ==
  [][(/\ \E c \in {BACKSPACE} \cup ArrowKeys : FindPromptKey(c)
      /\ pc' = "find"
      /\ prompt_s' = <<>>)
     => (CursorAndScrollKept /\ Tags(m_rows') = Tags(m_rows))]_vars

\* the tags updateSyntax computes for the row at position p from tags that
\* are all NORMAL: the characters it leaves NORMAL are those that no comment,
\* string, number or keyword rule matches
FreshTags(rs, p) ==
  ScanRow(rs[p + 1].rendered,
          [k \in 1..Len(rs[p + 1].rendered) |-> HL_NORMAL],
          0, TRUE, 0, p > 0 /\ rs[p].hl_open_comment, HLDB).hl

\* a key that inserts or deletes a character inside the cursor row
InRowEdit == (SynType \/ SynBackspace) /\ pc' = "main"

\* C14: after a row is re-highlighted with an active syntax profile, every
\* character that no comment, string, number or keyword rule matches is
\* tagged NORMAL, whatever its tag was before; checked on the row edited by
\* a key press.
C14_UnmatchedCharsAreNormal ==
  [][(InRowEdit /\ m_syntax' = "c")
     => \A k \in 1..Len(m_rows'[m_cy + 1].hl) :
          FreshTags(m_rows', m_cy)[k] = HL_NORMAL
            => m_rows'[m_cy + 1].hl[k] = HL_NORMAL]_vars

\* C15: with no syntax profile, after any mutation of a row every tag of the
\* re-highlighted row is NORMAL, in every state reachable by edits and find
\* sessions; checked on the rows whose text a key press changes in place.
C15_NoProfileAllNormal ==
  [][(/\ pc = "main" /\ pc' = "main"
      /\ m_syntax' = "none"
      /\ Len(m_rows') = Len(m_rows))
     => \A k \in 1..Len(m_rows') :
          m_rows'[k].row # m_rows[k].row
            => \A j \in 1..Len(m_rows'[k].hl) : m_rows'[k].hl[j] = HL_NORMAL]_vars

\* a multi-line comment is opened on row i (1-based) and closed on row j:
\* row i is entered outside a comment, rows i..j-1 end inside one, row j
\* ends outside
CommentSpan(rs, i, j) ==
  /\ i < j
  /\ ~(i > 1 /\ rs[i - 1].hl_open_comment)
  /\ \A k \in i..(j - 1) : rs[k].hl_open_comment
  /\ ~rs[j].hl_open_comment

\* C16: when a multi-line comment is opened on row i and closed on row j,
\* every character from the opener to the closer is tagged ML_COMMENT, and
\* the characters before the opener, after the closer and on the rows after
\* j are not tagged ML_COMMENT because of that comment: from row i on, a
\* character is tagged ML_COMMENT exactly when the scan of its row puts it
\* inside a comment.
C16_CommentSpanTagged ==
  \A i, j \in 1..Len(m_rows) :
    (m_syntax = "c" /\ CommentSpan(m_rows, i, j))
      => \A k \in i..Len(m_rows) : \A n \in 1..Len(m_rows[k].hl) :
           (m_rows[k].hl[n] = HL_MLCOMMENT)
             <=> (FreshTags(m_rows, k - 1)[n] = HL_MLCOMMENT)

\* the rows as the in-row edit hands them to updateSyntax: the cursor row
\* has its new text and rendering, and every tag and flag is still the old
\* one
EditedRows ==
  [m_rows EXCEPT ![m_cy + 1].row = m_rows'[m_cy + 1].row,
                 ![m_cy + 1].rendered = m_rows'[m_cy + 1].rendered]

\* the run of updateSyntax the in-row edit makes on the cursor row
EditRun == updateSyntaxRun(EditedRows, m_cy, m_syntax)

\* the in-row edit leaves the cursor row's open-comment flag as it was
FlagKept == m_rows'[m_cy + 1].hl_open_comment = m_rows[m_cy + 1].hl_open_comment

\* C17: an in-row edit (insertChar, deleteChar within the row) that leaves
\* the row's outgoing continuation flag unchanged re-highlights that row
\* only, and leaves the raw text, rendered text, tags and flag of every
\* other row unchanged.
C17_OtherRowsUntouched ==
  [][(InRowEdit /\ FlagKept)
     => /\ EditRun.rows = m_rows'
        /\ EditRun.scanned = <<m_cy>>
        /\ Len(m_rows') = Len(m_rows)
        /\ \A k \in 1..Len(m_rows) : k # m_cy + 1 => m_rows'[k] = m_rows[k]]_vars

\* a character was typed or deleted on a row inside an open comment, the row
\* still ends inside the comment, and another row follows it
C17_Witness ==
  /\ pc = "main"
  /\ last_call.op \in {"insertChar", "deleteChar"}
  /\ last_call.ret = "open"
  /\ last_call.at + 1 < Len(m_rows)
  /\ m_rows[last_call.at + 1].hl_open_comment

\* position of the last row the cascade has to reach: the first row after
\* the cursor row whose flag the step leaves as it was, or the last row
CascadeEnd ==
  LET kept == {j \in (m_cy + 1)..(Len(m_rows) - 1) :
                 m_rows'[j + 1].hl_open_comment = m_rows[j + 1].hl_open_comment}
  IN IF kept = {} THEN Len(m_rows) - 1
     ELSE CHOOSE j \in kept : \A o \in kept : j <= o

\* the scan of updateSyntax over a row with the given incoming flag, from
\* the tags the row has
Rescan(erow, incoming) ==
  ScanRow(erow.rendered, Resize(erow.hl, Len(erow.rendered), HL_NORMAL),
          0, TRUE, 0, incoming, HLDB)

\* C18: when an in-row edit changes the row's outgoing continuation flag,
\* the rows i+1, i+2, ... are re-highlighted in increasing order, each with
\* the new flag of the row before it as incoming flag, up to and including
\* the first row whose own flag comes out unchanged (or the last row); no
\* row beyond that one is recomputed.
C18_CascadeInOrderThenStops ==
  [][(InRowEdit /\ ~FlagKept)
     => /\ EditRun.rows = m_rows'
        /\ EditRun.scanned = [n \in 1..(CascadeEnd - m_cy + 1) |-> m_cy + n - 1]
        /\ \A j \in (m_cy + 1)..CascadeEnd :
             /\ m_rows'[j + 1].hl =
                  Rescan(m_rows[j + 1], m_rows'[j].hl_open_comment).hl
             /\ m_rows'[j + 1].hl_open_comment =
                  Rescan(m_rows[j + 1], m_rows'[j].hl_open_comment).in_comment
        /\ \A j \in (CascadeEnd + 1)..(Len(m_rows) - 1) :
             m_rows'[j + 1] = m_rows[j + 1]]_vars

\* the opener on row 0 was broken by a Backspace: row 1, which holds the
\* closer, was re-highlighted and kept its flag, and a third row follows
C18_Witness ==
  /\ pc = "main"
  /\ last_call.op = "deleteChar" /\ last_call.at = 0 /\ last_call.ret = "open"
  /\ Len(m_rows) = 3
  /\ ~m_rows[1].hl_open_comment
  /\ m_rows[2].row = <<STAR, SLASH>>

\* the tag of a keyword entry: KEYWORD2 with the trailing '|', else KEYWORD1
KeywordTag(kw) == IF kw[Len(kw)] = 124 THEN HL_KEYWORD2 ELSE HL_KEYWORD1

\* the keyword kw occurs in the row at 0-based position i and all its
\* characters carry the keyword's tag
TaggedKeywordAt(erow, i, kw) ==
  /\ CompareAt(erow.rendered, i, KeywordText(kw))
  /\ \A n \in 1..Len(KeywordText(kw)) : erow.hl[i + n] = KeywordTag(kw)

\* "integer if(x)"
IntegerIfX == <<105, 110, 116, 101, 103, 101, 114, 32, 105, 102, 40, 120, 41>>

\* C19: a keyword occurrence is tagged KEYWORD1 (KEYWORD2 for the entries
\* with the trailing '|') only if it starts at the row start or directly
\* after a separator and is immediately followed by a separator or the row
\* end; the row "integer if(x)" gets "if" tagged KEYWORD1 and "int" inside
\* "integer" untagged.
C19_KeywordAtWordBoundary ==
  /\ \A k \in 1..Len(m_rows) : \A i \in 0..(Len(m_rows[k].rendered) - 1) :
       \A n \in 1..Len(C_HL_KEYWORDS) :
         TaggedKeywordAt(m_rows[k], i, C_HL_KEYWORDS[n])
           => /\ i = 0 \/ isSeparator(m_rows[k].rendered[i])
              /\ isSeparator(CharAt(m_rows[k].rendered,
                                    i + Len(KeywordText(C_HL_KEYWORDS[n]))))
  /\ LET hl == ScanRow(IntegerIfX, [n \in 1..Len(IntegerIfX) |-> HL_NORMAL],
                       0, TRUE, 0, FALSE, HLDB).hl
     IN /\ hl[9] = HL_KEYWORD1 /\ hl[10] = HL_KEYWORD1
        /\ \A n \in 1..7 : hl[n] = HL_NORMAL

\* rx is the first render column of a character of the row, or the column
\* just behind the row
FirstColumn(raw, rx) == \E cx \in 0..Len(raw) : convertRowCxToRx(raw, cx) = rx

WidthOf(raw, n) == Len(Render(SubSeq(raw, 1, n), <<>>))

\* the smallest buffer column whose cumulative render width exceeds rx, the
\* row length when there is none
SmallestColumnPast(raw, rx) ==
  LET past == {cx \in 0..(Len(raw) - 1) : WidthOf(raw, cx + 1) > rx}
  IN IF past = {} THEN Len(raw)
     ELSE CHOOSE cx \in past : \A o \in past : cx <= o

\* "a<TAB>b"
ATabB == <<CH_a, TAB, 98>>

C22_CxClampedToRowLength ==
  (pc \in {"main", "crashed"} /\ last_call.op # "deleteRow")
    => /\ ~ub
       /\ m_cy < Len(m_rows)
            => m_rx = convertRowCxToRx(m_rows[m_cy + 1].row,
                                       Min(m_cx, Len(m_rows[m_cy + 1].row)))

\* the file rows drawRows draws: 1-based positions of the rows in the
\* viewport
VisibleRows == {k \in 1..Len(m_rows) : k - 1 >= m_rowoff /\ k - 1 < m_rowoff + m_screenrows}

\* the characters among what was appended to the output
CharsOf(out) == SelectSeq(out, LAMBDA o : ~o.esc)

\* the rendered characters of erow in the columns [coloff, coloff + width)
Clip(erow, coloff, width) ==
  SubSeq(erow.rendered, coloff + 1, Min(Len(erow.rendered), coloff + width))

\* C23: for each visible row drawRows emits only the rendered characters in
\* the columns [coloff, coloff + screencols): the characters written for one
\* row are that clip of the row, so they never outnumber the viewport width.
C23_DrawnRowIsClipped ==
  pc = "main"
    => \A k \in VisibleRows :
         LET chars == CharsOf(DrawRow(m_rows[k], m_coloff))
         IN /\ Len(chars) <= m_screencols
            /\ chars = [n \in 1..Len(chars) |->
                          OutChar(Clip(m_rows[k], m_coloff, m_screencols)[n])]

\* the colours of the characters drawRows emits for erow: -1 (default) for
\* a NORMAL character, else the colour of its tag
EmittedColors(erow, coloff) ==
  [n \in 1..(IF Len(erow.rendered) > coloff THEN Len(erow.rendered) - coloff ELSE 0) |->
     IF erow.hl[coloff + n] = HL_NORMAL THEN -1
     ELSE convertSyntaxToColor(erow.hl[coloff + n])]

\* number of places where two neighbouring emitted characters differ in
\* colour
Transitions(cs) == Cardinality({n \in 2..Len(cs) : cs[n] # cs[n - 1]})

\* number of escape sequences in the output
Escapes(out) == Len(SelectSeq(out, LAMBDA o : o.esc))

\* the rows of the viewport that hold no control character
PlainVisibleRows ==
  {k \in VisibleRows : \A n \in 1..Len(m_rows[k].rendered) : ~IsCntrl(m_rows[k].rendered[n])}

\* every escape of the output stands where the claim allows one: the last
\* one is the reset at the end of the row; any other stands right before a
\* character whose colour differs from the active one (that of the
\* character before it, the default at the start of the row), and is the
\* reset for a NORMAL character and the character's colour otherwise
EscapesOnlyAtChanges(out, cs) ==
  \A p \in 1..Len(out) :
    out[p].esc =>
      IF p = Len(out) THEN out[p].v = 39
      ELSE LET n == Len(CharsOf(SubSeq(out, 1, p))) + 1
           IN /\ ~out[p + 1].esc
              /\ cs[n] # (IF n = 1 THEN -1 ELSE cs[n - 1])
              /\ out[p].v = (IF cs[n] = -1 THEN 39 ELSE cs[n])

\* C24 as stated: for a visible row without control characters the number
\* of colour escapes is at most the number of colour transitions among the
\* emitted characters plus one.
C24_EscapesAtMostTransitionsPlusOne ==
  pc = "main"
    => \A k \in PlainVisibleRows :
         Escapes(DrawRow(m_rows[k], m_coloff))
           <= Transitions(EmittedColors(m_rows[k], m_coloff)) + 1

\* C24, amended: for a visible row without control characters drawRows
\* emits a colour-set escape only at a character whose colour differs from
\* the active colour, and a reset only at a NORMAL character that follows a
\* coloured one and once at the end of the row; the number of escapes is at
\* most the number of colour transitions among the emitted characters plus
\* two (plus one when the first emitted character is NORMAL).
C24_EscapesOnlyAtColorChanges ==
  pc = "main"
    => \A k \in PlainVisibleRows :
         LET out == DrawRow(m_rows[k], m_coloff)
             cs == EmittedColors(m_rows[k], m_coloff)
         IN /\ EscapesOnlyAtChanges(out, cs)
            /\ Escapes(out) <= Transitions(cs) + 2
            /\ (cs = <<>> \/ cs[1] = -1) => Escapes(out) <= Transitions(cs) + 1

\* after an edit a visible row of three characters starts with coloured
\* characters and ends with a NORMAL one: a colour-set, a reset and the
\* final reset are emitted
C24_Witness ==
  /\ pc = "main" /\ m_dirty > 0 /\ m_coloff = 0
  /\ \E k \in PlainVisibleRows :
       /\ Len(m_rows[k].rendered) = 3
       /\ m_rows[k].hl[1] = HL_STRING /\ m_rows[k].hl[3] = HL_NORMAL
       /\ Escapes(DrawRow(m_rows[k], m_coloff)) = 3

\* C25: after every screen refresh, with screenrows >= 1 and screencols >=
\* 1, the cursor lies inside the viewport: rowoff <= cy < rowoff +
\* screenrows and coloff <= rx < coloff + screencols; in particular the row
\* of a search match is visible after the refresh that follows the match.
C25_CursorInViewport ==
  (pc \in {"main", "find", "saveas"} /\ m_screenrows >= 1 /\ m_screencols >= 1)
    => /\ m_rowoff <= m_cy /\ m_cy < m_rowoff + m_screenrows
       /\ m_coloff <= m_rx /\ m_rx < m_coloff + m_screencols

\* a find keystroke matched on the second row: the refresh after it has
\* brought the viewport, which the match had pushed behind the last row, up
\* to the match
C25_Witness ==
  /\ pc = "find" /\ find_st.last_match = 1
  /\ m_cy = 1 /\ m_rowoff = 1

\* C26: with unsaved changes the editor exits on Ctrl-Q only when that
\* keypress is the fourth consecutive Ctrl-Q: the three before it each took
\* one off the remaining count (3, 2, 1), and any other keypress sets the
\* count back to 3; so a Ctrl-Q that exits with unsaved changes finds the
\* count at 0.
C26_ExitOnlyOnFourthCtrlQ ==
  [][/\ (KeyCtrlQ /\ edited /\ pc' = "exited") => quit_times = 0
     /\ (KeyCtrlQ /\ edited /\ quit_times > 0)
          => (pc' = "main" /\ quit_times' = quit_times - 1)
     /\ (pc = "main" /\ pc' = "main" /\ ~KeyCtrlQ) => quit_times' = KILO_QUIT_TIMES]_vars

\* C27: the Delete key deletes to the right of the cursor: for every cursor
\* position on an existing row, the raw text of the cursor row to the left
\* of the cursor is the same after Delete as before, and Delete with the
\* cursor at the end of the last row changes no row.
LeftOfCursorKept(new, old, cx) ==
  /\ Len(new) >= cx
  /\ \A i \in 1..cx : new[i] = old[i]

C27_DeleteKeepsLeftOfCursor ==
  [][(KeyDelete /\ pc' = "main" /\ m_cy < Len(m_rows)
        /\ m_cx <= Len(m_rows[m_cy + 1].row))
       => /\ m_cy < Len(m_rows')
          /\ LeftOfCursorKept(m_rows'[m_cy + 1].row, m_rows[m_cy + 1].row, m_cx)
          /\ (m_cy = Len(m_rows) - 1 /\ m_cx = Len(m_rows[m_cy + 1].row))
               => RawText(m_rows') = RawText(m_rows)]_vars

\* C28: whenever a find session starts, the last-match row is none, the
\* direction is forward and no highlight snapshot is held: the search state
\* of one session, ended by Enter or Escape, does not carry over into the
\* next session.
C28_SessionStartsFresh ==
  [][(pc = "main" /\ pc' = "find")
       => /\ find_st'.last_match = -1
          /\ find_st'.direction = 1
          /\ find_st'.saved_hl = <<>>]_vars

\* the second session has started, after a first one that matched on the
\* second row (saved_hl_line, which no branch resets, still names it)
C28_Witness ==
  /\ sessions = 2 /\ pc = "find" /\ prompt_s = <<>>
  /\ find_st.saved_hl_line = 1
  /\ find_st.last_match = -1 /\ find_st.direction = 1 /\ find_st.saved_hl = <<>>

\* C29: input events are processed run-to-completion: whenever the program
\* reads a key, in the main loop or inside a prompt, exactly one screen
\* refresh has been performed since the previous read, and it came after
\* the previous key was fully processed: the viewport and the render column
\* on screen are those of the state the handler left.
C29_OneRefreshBetweenReads ==
  pc \in {"main", "find", "saveas"}
    => /\ refreshes = 1
       /\ LET e == scroll(Ed)
          IN e.rx = m_rx /\ e.rowoff = m_rowoff /\ e.coloff = m_coloff

\* the prompt of find() is about to read a key after one that was typed into
\* the query: the callback has matched on the second row and the one
\* refresh has scrolled to it
C29_Witness ==
  /\ pc = "find" /\ prompt_s = <<CH_a>> /\ refreshes = 1
  /\ find_st.last_match = 1 /\ m_cy = 1 /\ m_rowoff = 1

\* C30: Backspace with the cursor at column 0 of row r > 0 joins row r onto
\* row r-1: the row count decreases by one, row r-1 becomes the
\* concatenation of the old rows r-1 and r, all other rows keep their
\* content and order, and the cursor moves to row r-1 at the column equal to
\* the old length of row r-1; Backspace at row 0 column 0, or with the
\* cursor past the last row, changes nothing.
JoinedText(rs, r) ==
  [k \in 1..(Len(rs) - 1) |->
     IF k < r THEN rs[k].row
     ELSE IF k = r THEN rs[r].row \o rs[r + 1].row
     ELSE rs[k + 1].row]

C30_BackspaceJoinsRows ==
  [][BackspaceAny
       => /\ (m_cx = 0 /\ m_cy > 0 /\ m_cy < Len(m_rows))
               => /\ pc' = "main"
                  /\ Len(m_rows') = Len(m_rows) - 1
                  /\ RawText(m_rows') = JoinedText(m_rows, m_cy)
                  /\ m_cy' = m_cy - 1
                  /\ m_cx' = Len(m_rows[m_cy].row)
          /\ ((m_cx = 0 /\ m_cy = 0) \/ m_cy >= Len(m_rows))
               => /\ RawText(m_rows') = RawText(m_rows)
                  /\ m_cx' = m_cx /\ m_cy' = m_cy
                  /\ m_dirty' = m_dirty]_vars

\* the third of four rows has been joined onto the second: "\t" and "a\t"
\* are one row, the first and the last row are as they were, and the cursor
\* stands behind the old end of the second row
C30_Witness ==
  /\ RawText(m_rows) = << <<CH_a>>, <<TAB, CH_a, TAB>>, <<>> >>
  /\ m_cy = 1 /\ m_cx = 1 /\ m_dirty = 2

\* the raw contents of the rows from the k-th on, one after the other
RECURSIVE RawConcatFrom(_, _)
RawConcatFrom(rs, k) ==
  IF k > Len(rs) THEN <<>> ELSE rs[k].row \o RawConcatFrom(rs, k + 1)

\* C31: Enter with the cursor at (row r, column c) on an existing row
\* splits it: the row count increases by one, row r keeps the first c
\* characters, row r+1 holds the remaining characters (for c = 0 that is an
\* empty row inserted before the old row r), the rows around them keep
\* their place, the concatenation of all raw row contents is unchanged, and
\* the cursor ends at row r+1, column 0.
C31_EnterSplitsRow ==
  [][(SplitEnter /\ m_cy < Len(m_rows))
       => LET old == m_rows[m_cy + 1].row
          IN /\ pc' = "main"
             /\ Len(m_rows') = Len(m_rows) + 1
             /\ m_rows'[m_cy + 1].row = SubSeq(old, 1, m_cx)
             /\ m_rows'[m_cy + 2].row = SubSeq(old, m_cx + 1, Len(old))
             /\ RawConcatFrom(m_rows', 1) = RawConcatFrom(m_rows, 1)
             /\ m_cy' = m_cy + 1 /\ m_cx' = 0]_vars

\* Enter has split the second row "\ta" behind the tab
C31_Witness ==
  /\ last_call.op = "insertNewline" /\ last_call.at = 1 /\ last_call.ret.cx = 1
  /\ RawText(m_rows) = << <<CH_a>>, <<TAB>>, <<CH_a>> >>
  /\ m_cy = 2 /\ m_cx = 0

\* C39: Enter followed immediately by Backspace is the identity on the
\* document when the cursor is on an existing row: the sequence of raw row
\* contents and the cursor position after the two keypresses equal those
\* before them.
C39_EnterThenBackspaceIsIdentity ==
  (pc = "main" /\ last_call.op = "insertNewline, deleteChar"
     /\ last_call.ret.cy < Len(last_call.ret.text))
    => /\ RawText(m_rows) = last_call.ret.text
       /\ m_cx = last_call.ret.cx
       /\ m_cy = last_call.ret.cy

\* Enter behind the tab of the second row "\ta" and then Backspace: the
\* two rows and the cursor are back
C39_Witness ==
  /\ last_call.op = "insertNewline, deleteChar"
  /\ last_call.ret.cx = 1 /\ last_call.ret.cy = 1
  /\ RawText(m_rows) = << <<CH_a>>, <<TAB, CH_a>> >>
  /\ m_cx = 1 /\ m_cy = 1 /\ m_dirty = 3

\* C32: a prompt ends only on Escape (returning the empty string) or on
\* Enter with non-empty input (returning the input); Enter with empty input
\* keeps the prompt open; Backspace removes the last input character; and
\* the callback is invoked exactly once for every key read, the terminating
\* key included.
C32_PromptEndsAndCallsBack ==
  [][/\ (PromptRead /\ last_call.op = "fromPrompt")
          => (last_call.ret.calls = 1 /\ ~last_call.ret.ended)
     /\ (PromptRead /\ last_call'.at = BACKSPACE)
          => prompt_s' = SubSeq(prompt_s, 1, Len(prompt_s) - 1)
     /\ (PromptCallback /\ pc' # "crashed")
          => LET c == last_call.at
                 ends == c = ESC \/ (c = CR /\ prompt_s # <<>>)
             IN /\ last_call'.ret.calls = 1
                /\ last_call'.ret.ended = ends
                /\ pc' = (IF ends THEN "run_loop" ELSE "find_loop")
                /\ ends => last_call'.ret.value = (IF c = ESC THEN <<>> ELSE prompt_s)
                /\ ~ends => prompt_s' = prompt_s]_vars

\* the prompt has returned "a" on Enter, after one call of the callback for
\* that key, and the main loop waits for a key
C32_Witness ==
  /\ pc = "main" /\ last_call.op = "fromPrompt" /\ last_call.at = CR
  /\ last_call.ret = [calls |-> 1, ended |-> TRUE, value |-> <<CH_a>>]

\* the keys of a find session that neither end it nor are arrows
QueryKeys == (PromptKeys \ {CR, ESC}) \ ArrowKeys

\* the find prompt has read key and goes on; the callback has left the
\* direction dir, and after a key that is no arrow the match is the first
\* one of a forward scan from no last match
DirectionAfter(key, dir) ==
  (FindPromptKey(key) /\ pc' = "find")
    => /\ find_st'.direction = dir
       /\ (key \in QueryKeys /\ Len(m_rows) > 0)
            => find_st'.last_match = FirstMatchFrom(m_rows, -1, 1, prompt_s')

\* C33: in a find session a directional keystroke sets the scan direction
\* used for that keystroke: ARROW_LEFT and ARROW_UP scan backward
\* (direction -1), ARROW_RIGHT and ARROW_DOWN scan forward (+1); any other
\* non-terminal keystroke resets the last-match row to none and the
\* direction to forward.
C33_ArrowSetsDirection ==
  [][\A key \in QueryKeys \cup ArrowKeys :
       DirectionAfter(key, IF key \in {ARROW_LEFT, ARROW_UP} THEN -1 ELSE 1)]_vars

\* C33, amended: ARROW_LEFT and ARROW_UP scan backward only when there is a
\* last match; with no last match every keystroke scans forward.
C33_BackwardOnlyFromAMatch ==
  [][\A key \in QueryKeys \cup ArrowKeys :
       DirectionAfter(key, IF key \in {ARROW_LEFT, ARROW_UP} /\ find_st.last_match # -1
                             THEN -1 ELSE 1)]_vars

\* a backward arrow key after a match on the last row has moved the match
\* up to the second row
C33_Witness ==
  /\ pc = "find" /\ prompt_s = <<CH_a>>
  /\ find_st.direction = -1 /\ find_st.last_match = 1
  /\ Len(m_rows) = 3

\* the text of name from its last '.' to its end, <<>> without a '.'
Extension(name) ==
  LET dots == {p \in 1..Len(name) : name[p] = DOT}
  IN IF dots = {} THEN <<>>
     ELSE SubSeq(name, CHOOSE p \in dots : \A o \in dots : p >= o, Len(name))

\* C34: selectSyntaxHighlight selects the C profile exactly when the
\* filename ends with one of the configured extensions (.c, .h, .cpp,
\* .hpp), that is when the text from the filename's last '.' to its end
\* equals one of them; every other filename (one ending in .css or .cc, for
\* example) gets no syntax profile.
C34_ProfileIffExtension ==
  pc = "main"
    => (m_syntax = "c"
          <=> \E n \in 1..Len(C_HL_EXTENSIONS) : Extension(m_filename) = C_HL_EXTENSIONS[n])

\* the rows with the open-comment flags flags in place of the stored ones
WithFlags(rs, flags) ==
  [k \in 1..Len(rs) |-> [rs[k] EXCEPT !.hl_open_comment = flags[k]]]

\* C35: a re-highlight cascade started at row i always terminates: it runs
\* on row i, then on i+1, i+2, ... in this order, on each of them at most
\* once, and stops at the latest at the last row; checked for every text
\* the editing reaches, every start row and every combination of stored
\* flags the cascade may find.
C35_CascadeVisitsEachRowOnce ==
  \A i \in 0..(Len(m_rows) - 1) :
    \A flags \in [1..Len(m_rows) -> BOOLEAN] :
      LET run == updateSyntaxRun(WithFlags(m_rows, flags), i, m_syntax).scanned
      IN /\ Len(run) >= 1 /\ Len(run) <= Len(m_rows) - i
         /\ \A n \in 1..Len(run) : run[n] = i + n - 1

\* the '*' typed behind the '/' of row 0 has opened a comment: the cascade
\* ran over all three rows and stopped behind the last one
C35_Witness ==
  /\ pc = "main" /\ last_call = [op |-> "insertChar", at |-> 0, ret |-> "closed"]
  /\ Len(m_rows) = 3 /\ m_rows[1].row = <<SLASH, STAR>>
  /\ \A k \in 1..3 : m_rows[k].hl_open_comment

\* the tags and flags of a highlight of the whole document from the k-th
\* row on, every row scanned from tags that are all NORMAL with the flag
\* incoming from the row before it
RECURSIVE FullRescanFrom(_, _, _)
FullRescanFrom(rs, k, incoming) ==
  IF k > Len(rs) THEN <<>>
  ELSE
    LET res == ScanRow(rs[k].rendered, [j \in 1..Len(rs[k].rendered) |-> HL_NORMAL],
                       0, TRUE, 0, incoming, HLDB)
    IN <<res.hl>> \o FullRescanFrom(rs, k + 1, res.in_comment)

\* C36: incremental highlighting agrees with a full rescan: after any
\* sequence of edits outside a find session, every row's tags equal the
\* tags obtained by clearing all tags and re-highlighting the whole
\* document from the first row to the last with the same syntax profile.
C36_IncrementalEqualsFullRescan ==
  (pc = "main" /\ m_syntax = "c")
    => \A k \in 1..Len(m_rows) : m_rows[k].hl = FullRescanFrom(m_rows, 1, FALSE)[k]

\* C37: continuation flags form a consistent chain: after any sequence of
\* edits, the stored flag of every row i equals the flag produced by
\* scanning row i's rendered text with the stored flag of row i-1 as
\* incoming flag (false for row 0), also for the row that follows a row
\* removed by a Backspace join or inserted by Enter.
C37_FlagsFormAChain ==
  (pc = "main" /\ m_syntax = "c")
    => \A k \in 1..Len(m_rows) :
         m_rows[k].hl_open_comment
           = Rescan(m_rows[k], k > 1 /\ m_rows[k - 1].hl_open_comment).in_comment

\* ------------------------------------------ rows indexed by the handlers
\* the PAGE_UP / PAGE_DOWN case of processKeypress up to its last moveCursor
PageMoved(key, g) ==
  LET down == m_rowoff + m_screenrows - 1
      e1 == IF key = PAGE_UP THEN [Ed EXCEPT !.cy = m_rowoff]
            ELSE [Ed EXCEPT !.cy = IF down > Len(m_rows) THEN Len(m_rows) ELSE down]
  IN MoveTimes(e1, IF key = PAGE_UP THEN ARROW_UP ELSE ARROW_DOWN, m_screenrows, g)

\* C38: no keypress makes the editor index a row that does not exist:
\* from an empty document or a loaded file, every access m_rows[k] made
\* by moveCursor, by the arrow, Page Up/Down and Delete cases of
\* processKeypress, by insertChar, insertNewline, deleteChar and scroll
\* has 0 <= k < N, also when the document is empty or the cursor row is N.
C38_HandlersIndexExistingRows ==
  (pc = "main" /\ ~ub)
    => \A g \in Garbage :
         /\ \A key \in ArrowKeys : ~moveCursor(Ed, key, g).ub
         /\ \A key \in {PAGE_UP, PAGE_DOWN} : ~PageMoved(key, g).ub
         /\ ~deleteChar(Ed, g).ub
         /\ ~deleteChar(moveCursor(Ed, ARROW_RIGHT, g), g).ub
         /\ ~insertNewline(Ed).ub
         /\ \A c \in TypedChars : ~insertChar(Ed, c).ub
         /\ m_cy < Len(m_rows) \/ scroll(Ed).rx = m_cx

====
